---- MODULE Spec2Model ----
(***************************************************************************)
(* State-machine model of the chain-scanning scripts of graph-query:       *)
(*   filtered_token.py          AutoPostgresScanner        (ft_ variables) *)
(*   paraswap-incremental.py    incremental scanner        (ps_ variables) *)
(*   multi.py                   SimpleMultiScanner/Worker  (mu_ variables) *)
(*   multi.py / scripts/paraswap_backfill.py partitioning  (pt_ variables) *)
(*   paraswap-incremental.py    log filter                 (fl_ variables) *)
(* Block numbers, batch sizes and addresses are scaled down; every scaled  *)
(* size is a named definition.                                             *)
(***************************************************************************)
EXTENDS Integers, Sequences, FiniteSets, TLC

VARIABLES
    target_token_trades,  \* table target_token_trades: set of rows, tx_hash UNIQUE
    ft_progress,          \* the single row of target_scan_progress
    ft_pc,                \* position of scan_for_target_tokens
    ft_cur,               \* current_batch_start
    ft_end,               \* end_block
    ft_batch_end,         \* batch_end
    ft_block,             \* block_num of the inner for loop
    ft_batch_trades,      \* batch_target_trades
    ft_failed,            \* blocks of the current batch whose processing raised
    ft_runs               \* number of scan_for_target_tokens calls so far

    \* ---- the log filter of scan_incremental_blocks on one log
VARIABLES
    fl_from,              \* the address the log's topic 1 encodes (sender)
    fl_to,                \* the address the log's topic 2 encodes (recipient)
    fl_log,               \* the log as the RPC returns it
    fl_tokens,            \* arena_tokens
    fl_kept               \* "none" before the filter ran, then "kept" or "dropped"

    \* ---- direct calls of save_trade / save_simple_trade
VARIABLES
    sv_last               \* the trade the last save call was given

    \* ---- multi.py: SimpleMultiScanner.scan_parallel and its workers
VARIABLES
    mu_pc,                \* "idle" or "running"
    mu_start,             \* start_block
    mu_end,               \* end_block
    mu_assign,            \* work_assignments: worker -> <<range_start, range_end>>
    mu_next,              \* worker -> block_num its for loop is at
    mu_examined,          \* block -> times its transactions were iterated over
    mu_runs               \* number of scan_parallel calls so far

    \* ---- the work-assignment loops of multi.py and paraswap_backfill.py
VARIABLES
    pt_algo,              \* "multi" (scan_parallel) or "backfill" (run_parallel_backfill)
    pt_start,             \* start_block
    pt_end,               \* end_block
    pt_n,                 \* NUM_THREADS / NUM_WORKERS
    pt_i,                 \* loop index i
    pt_cur,               \* current_start
    pt_assign             \* work_assignments / assignments so far

    \* ---- paraswap-incremental.py
VARIABLES
    ps_chain,             \* block -> kind of the Transfer log its transaction emits
    ps_users_exists,      \* table paraswap_arena_users exists
    ps_users,             \* rows of paraswap_arena_users in id order
    ps_ckpt,              \* table paraswap_scan_checkpoints
    ps_pc,                \* position of the script's main block
    ps_start,             \* start_block
    ps_latest,            \* latest_block
    ps_resumed,           \* get_last_scanned_block read the database without error
    ps_chunks,            \* block_chunks
    ps_i,                 \* index of the chunk loop
    ps_logs,              \* arena_paraswap_logs
    ps_user_txs,          \* user_transactions
    ps_requests,          \* <<fromBlock, toBlock>> of the eth_getLogs calls of this run
    ps_prev,              \* latest_block and checkpoint of the last completed run
    ps_runs               \* number of runs of the script so far

    \* ---- direct calls of upload_new_data_to_database
VARIABLES
    up_list,              \* the user_transactions passed to every call
    up_calls,             \* number of calls so far
    up_first              \* the table after the first call

    \* ---- direct calls of process_transactions_and_get_users with one log
VARIABLES
    cl_from,              \* sender of the log's transfer
    cl_to,                \* recipient of the log's transfer
    cl_log,               \* the log
    cl_outcome,           \* what get_transaction did
    cl_recs,              \* the user_transactions returned
    cl_pc                 \* position: before or after the call

    \* ---- the token_deployments table of the graph database
VARIABLES
    td_exists,            \* the table exists
    td_rows               \* its rows

    \* ---- direct calls of create_scanning_checkpoint
VARIABLES
    ck_ckpt,              \* table paraswap_scan_checkpoints
    ck_users_exists,      \* table paraswap_arena_users exists
    ck_users,             \* rows of paraswap_arena_users
    ck_block,             \* block_number
    ck_pc                 \* position: before or after the call

    \* ---- historical_token_scan.py TokenScanner.run_continuous_scan
VARIABLES
    hs_has_row,           \* scan_progress holds a row
    hs_stored,            \* last_block_scanned of the newest row
    hs_pc,                \* position of the process
    hs_start,             \* start_block
    hs_tip,               \* chain tip last seen
    hs_at_startup,        \* value _manage_scan_progress() returned at start-up
    hs_prev_tip,          \* chain tip of the previous scan of this process
    hs_scans,             \* scans made since start-up
    hs_last_start,        \* start_block of the last scan_events call
    hs_count,             \* times each block was passed to scan_events
    hs_runs               \* process start-ups so far

    \* ---- paraswap-incremental.py: the last run that crashed
VARIABLES
    cr_crash              \* run number, range and eth_getLogs requests of the crashed run

    \* ---- direct calls of scan_incremental_blocks or scan_for_target_tokens
VARIABLES
    ch_which,             \* the function called
    ch_pc,                \* position in scan_incremental_blocks
    ch_start,             \* start_block
    ch_end,               \* end_block
    ch_chunks,            \* block_chunks
    ch_i,                 \* index of the chunk loop
    ch_requests,          \* the eth_getLogs requests issued, with their outcome
    ch_chain,             \* block -> kind of the Transfer log its transaction emits
    ch_logs               \* arena_paraswap_logs

    \* ---- arena_scraper.py ArenaScraper.run
VARIABLES
    as_limit,             \* limit
    as_batch_size,        \* self.batch_size
    as_available,         \* users the API has
    as_continuous,        \* continuous
    as_pc,                \* position of run
    as_offset,            \* offset
    as_total,             \* total_processed
    as_passed             \* users passed to process_users so far

    \* ---- sync_subgraph_to_db.py: the timestamp-based historical syncs
VARIABLES
    sy_kind,              \* which sync runs: token deployments or bonding events
    sy_records,           \* deployedAt / timestamp of the subgraph's records, oldest first
    sy_last_timestamp,    \* last_timestamp
    sy_fetched,           \* indices of the records returned by some query
    sy_pc                 \* position of the sync

    \* ---- scripts/analysis/manual_pnl_calculator.py FIFOPortfolioTracker, one token
VARIABLES
    pf_position,          \* self.positions of the first token
    pf_other,             \* self.positions of the second token
    pf_last,              \* the last sell: arguments, returned P&L and the position before it
    pf_ops                \* number of buy and sell calls so far

    \* ---- multi.py setup_tables and filtered_token.py setup_output_tables on one database
VARIABLES
    sc_trades,            \* table target_token_trades: exists, columns, tx_hash of the rows
    sc_progress,          \* table target_scan_progress exists
    sc_first,             \* the script whose CREATE TABLE made target_token_trades
    sc_setup,             \* script -> outcome of its last table set-up
    sc_insert             \* script -> outcome of its last trade insert

    \* ---- filtered_token.py rate limiting (track_rpc_request)
VARIABLES
    rl_now,               \* time.time() in seconds since the scanner was constructed
    rl_request_count,     \* self.request_count
    rl_batch_start_time,  \* self.batch_start_time
    rl_issued             \* second -> number of RPC requests issued in it

    \* ---- scripts/paraswap_backfill.py one worker of run_parallel_backfill
VARIABLES
    bf_chain,             \* block -> the Paraswap event its transaction emits, or none
    bf_start,             \* start_block of the worker
    bf_end,               \* end_block of the worker
    bf_pc,                \* position of the worker and of the collection of its result
    bf_block,             \* block_num of the for loop
    bf_events,            \* the values process_paraswap_event returned
    bf_trades,            \* trades of process_block_batch
    bf_failed,            \* blocks whose get_block or get_logs raised
    bf_saved              \* the trades passed to save_trades_batch

    \* ---- bonding_tracker.py BondingTracker
VARIABLES
    bt_rows,              \* token -> its row of token_deployments
    bt_pair,              \* token -> block of its PairCreated event with WAVAX, 0 if none
    bt_compatible,        \* token -> decimals() answers
    bt_last,              \* the last operation: its kind, number, and what it saw, selected and found
    bt_errored,           \* tokens for which _check_bonding has reported an error
    bt_notbonded          \* tokens the last update_bonding_status found not bonded, without error

ftVars == <<ft_progress, ft_pc, ft_cur, ft_end, ft_batch_end, ft_block,
            ft_batch_trades, ft_failed, ft_runs>>

flVars == <<fl_from, fl_to, fl_log, fl_tokens, fl_kept>>

psVars == <<ps_chain, ps_ckpt, ps_pc, ps_start, ps_latest,
            ps_resumed, ps_chunks, ps_i, ps_logs, ps_user_txs, ps_requests,
            ps_prev, ps_runs>>

upVars == <<up_list, up_calls, up_first>>

svVars == <<sv_last>>

muVars == <<mu_pc, mu_start, mu_end, mu_assign, mu_next, mu_examined, mu_runs>>

ptVars == <<pt_algo, pt_start, pt_end, pt_n, pt_i, pt_cur, pt_assign>>

clVars == <<cl_from, cl_to, cl_log, cl_outcome, cl_recs, cl_pc>>

tdVars == <<td_exists, td_rows>>

ckVars == <<ck_ckpt, ck_users_exists, ck_users, ck_block, ck_pc>>

hsVars == <<hs_has_row, hs_stored, hs_pc, hs_start, hs_tip, hs_at_startup, hs_prev_tip, hs_scans, hs_last_start, hs_count, hs_runs>>

crVars == <<cr_crash>>

chVars == <<ch_which, ch_pc, ch_start, ch_end, ch_chunks, ch_i, ch_requests,
            ch_chain, ch_logs>>

asVars == <<as_limit, as_batch_size, as_available, as_continuous, as_pc, as_offset, as_total, as_passed>>

syVars == <<sy_kind, sy_records, sy_last_timestamp, sy_fetched, sy_pc>>

pfVars == <<pf_position, pf_other, pf_last, pf_ops>>

scVars == <<sc_trades, sc_progress, sc_first, sc_setup, sc_insert>>

rlVars == <<rl_now, rl_request_count, rl_batch_start_time, rl_issued>>

bfVars == <<bf_chain, bf_start, bf_end, bf_pc, bf_block, bf_events, bf_trades, bf_failed, bf_saved>>

btVars == <<bt_rows, bt_pair, bt_compatible, bt_last, bt_errored, bt_notbonded>>

psAll == <<ps_users_exists, ps_users, psVars, upVars>>

otherThanFT == <<flVars, svVars, muVars, ptVars, psAll, clVars, tdVars, ckVars, hsVars, crVars, chVars, asVars, syVars, pfVars, scVars, rlVars, bfVars, btVars>>

otherThanFL == <<target_token_trades, ftVars, svVars, muVars, ptVars, psAll, clVars, tdVars, ckVars, hsVars, crVars, chVars, asVars, syVars, pfVars, scVars, rlVars, bfVars, btVars>>

otherThanSV == <<ftVars, flVars, muVars, ptVars, psAll, clVars, tdVars, ckVars, hsVars, crVars, chVars, asVars, syVars, pfVars, scVars, rlVars, bfVars, btVars>>

otherThanMU == <<ftVars, flVars, svVars, ptVars, psAll, clVars, tdVars, ckVars, hsVars, crVars, chVars, asVars, syVars, pfVars, scVars, rlVars, bfVars, btVars>>

otherThanPT == <<target_token_trades, ftVars, flVars, svVars, muVars, psAll, clVars, tdVars, ckVars, hsVars, crVars, chVars, asVars, syVars, pfVars, scVars, rlVars, bfVars, btVars>>

otherThanPS == <<target_token_trades, ftVars, flVars, svVars, muVars, ptVars, upVars, clVars, tdVars, ckVars, hsVars, crVars, chVars, asVars, syVars, pfVars, scVars, rlVars, bfVars, btVars>>

otherThanUP == <<target_token_trades, ftVars, flVars, svVars, muVars, ptVars, psVars, clVars, tdVars, ckVars, hsVars, crVars, chVars, asVars, syVars, pfVars, scVars, rlVars, bfVars, btVars>>

otherThanCL == <<target_token_trades, ftVars, flVars, svVars, muVars, ptVars,
          ps_users_exists, ps_users, psVars, upVars, tdVars, ckVars, hsVars, crVars, chVars, asVars, syVars, pfVars, scVars, rlVars, bfVars, btVars>>

otherThanTD == <<target_token_trades, ftVars, flVars, svVars, muVars, ptVars,
          ps_users_exists, ps_users, psVars, upVars,
          clVars, ckVars, hsVars, crVars, chVars, asVars, syVars, pfVars, scVars, rlVars, bfVars, btVars>>

otherThanCK == <<target_token_trades, ftVars, flVars, svVars, muVars, ptVars,
          ps_users_exists, ps_users, psVars, upVars,
          clVars,
          tdVars, hsVars, crVars, chVars, asVars, syVars, pfVars, scVars, rlVars, bfVars, btVars>>

otherThanHS == <<target_token_trades, ftVars, flVars, svVars, muVars, ptVars,
          ps_users_exists, ps_users, psVars, upVars,
          clVars,
          tdVars,
          ckVars, crVars, chVars, asVars, syVars, pfVars, scVars, rlVars, bfVars, btVars>>

otherThanCR == <<target_token_trades, ftVars, flVars, svVars, muVars, ptVars,
          ps_users_exists, ps_users, psVars, upVars,
          clVars,
          tdVars,
          ckVars,
          hsVars, chVars, asVars, syVars, pfVars, scVars, rlVars, bfVars, btVars>>

otherThanCH == <<target_token_trades, ftVars, flVars, svVars, muVars, ptVars,
          ps_users_exists, ps_users, psVars, upVars,
          clVars,
          tdVars,
          ckVars,
          hsVars,
          crVars, asVars, syVars, pfVars, scVars, rlVars, bfVars, btVars>>

otherThanAS == <<target_token_trades, ftVars, flVars, svVars, muVars, ptVars,
          ps_users_exists, ps_users, psVars, upVars,
          clVars,
          tdVars,
          ckVars,
          hsVars,
          crVars,
          chVars, syVars, pfVars, scVars, rlVars, bfVars, btVars>>

otherThanSY == <<target_token_trades, ftVars, flVars, svVars, muVars, ptVars,
          ps_users_exists, ps_users, psVars, upVars,
          clVars,
          tdVars,
          ckVars,
          hsVars,
          crVars,
          chVars,
          asVars, pfVars, scVars, rlVars, bfVars, btVars>>

otherThanPF == <<target_token_trades, ftVars, flVars, svVars, muVars, ptVars,
          ps_users_exists, ps_users, psVars, upVars,
          clVars,
          tdVars,
          ckVars,
          hsVars,
          crVars,
          chVars,
          asVars,
          syVars, scVars, rlVars, bfVars, btVars>>

otherThanSC == <<target_token_trades, ftVars, flVars, svVars, muVars, ptVars,
          ps_users_exists, ps_users, psVars, upVars,
          clVars,
          tdVars,
          ckVars,
          hsVars,
          crVars,
          chVars,
          asVars,
          syVars,
          pfVars, rlVars, bfVars, btVars>>

otherThanRL == <<target_token_trades, ftVars, flVars, svVars, muVars, ptVars,
          ps_users_exists, ps_users, psVars, upVars,
          clVars,
          tdVars,
          ckVars,
          hsVars,
          crVars,
          chVars,
          asVars,
          syVars,
          pfVars,
          scVars, bfVars, btVars>>

otherThanBF == <<target_token_trades, ftVars, flVars, svVars, muVars, ptVars,
          ps_users_exists, ps_users, psVars, upVars,
          clVars,
          tdVars,
          ckVars,
          hsVars,
          crVars,
          chVars,
          asVars,
          syVars,
          pfVars,
          scVars,
          rlVars, btVars>>

otherThanBT == <<target_token_trades, ftVars, flVars, svVars, muVars, ptVars,
          ps_users_exists, ps_users, psVars, upVars,
          clVars,
          tdVars,
          ckVars,
          hsVars,
          crVars,
          chVars,
          asVars,
          syVars,
          pfVars,
          scVars,
          rlVars,
          bfVars>>

vars == <<target_token_trades, ftVars, flVars, svVars, muVars, ptVars,
          ps_users_exists, ps_users, psVars, upVars,
          clVars,
          tdVars,
          ckVars,
          hsVars,
          crVars,
          chVars,
          asVars,
          syVars,
          pfVars,
          scVars,
          rlVars,
          bfVars,
          btVars>>

Min(a, b) == IF a <= b THEN a ELSE b

(***************************************************************************)
(* Bounds of the model.                                                    *)
(***************************************************************************)
\* highest block number of the modelled chain (blocks 0 .. MaxBlock)
MaxBlock == 2

\* number of scans (runs) the model follows
MaxRuns == 2

\* trades one transaction analysis returns at most
MaxTradesPerTx == 2

\* filtered_token.py:36 START_BLOCK = 61561219, scaled
START_BLOCK == 1

\* filtered_token.py:37 BATCH_SIZE = 2000, scaled
BATCH_SIZE == 2

(***************************************************************************)
(* Table target_token_trades (filtered_token.py:187-206, multi.py:347-362) *)
(***************************************************************************)
Blocks == 0 .. MaxBlock

\* one ParaSwap transaction per block; its hash is the block's number
TxHashes == Blocks

\* an upsert that overwrites: ON CONFLICT (tx_hash) DO UPDATE
InsertOnConflictDoUpdate(table, row) ==
    {r \in table : r.tx_hash # row.tx_hash} \cup {row}

\* INSERT ... ON CONFLICT (tx_hash) DO NOTHING on a table whose tx_hash is UNIQUE
InsertOnConflictDoNothing(table, row) ==
    IF \E r \in table : r.tx_hash = row.tx_hash
    THEN table
    ELSE table \cup {row}

\* the TradeEvent values analyze_transaction_for_trades can return for a hash
FtTrade(h, b, u, ty) ==
    [tx_hash |-> h, block_number |-> b, user_address |-> u,
     token_in_symbol |-> IF ty = "BUY" THEN "WAVAX" ELSE "ARENA",
     token_out_symbol |-> IF ty = "BUY" THEN "ARENA" ELSE "WAVAX",
     trade_type |-> ty, contract_used |-> "ParaSwap",
     is_target_token_in |-> (ty = "SELL"), is_target_token_out |-> (ty = "BUY")]

\* tx['from'] of the transaction with hash h
TxFrom(h) == IF h % 2 = 0 THEN "alice" ELSE "bob"

FtTradesOf(b) == {FtTrade(b, b, TxFrom(b), ty) : ty \in {"BUY", "SELL"}}

SeqsUpTo(S, n) == UNION {[1 .. k -> S] : k \in 0 .. n}

\* AutoPostgresScanner.save_trade
save_trade(table, trade) == InsertOnConflictDoNothing(table, trade)

RECURSIVE save_trades(_, _)
save_trades(table, trades) ==
    IF trades = <<>> THEN table
    ELSE save_trades(save_trade(table, Head(trades)), Tail(trades))

\* AutoPostgresScanner.update_progress: the UPDATE of the row with id = 1
update_progress(row, last_block, blocks_scanned, trades_found) ==
    [last_scanned_block |-> last_block,
     total_blocks_scanned |-> row.total_blocks_scanned + blocks_scanned,
     target_token_trades |-> row.target_token_trades + trades_found]

(***************************************************************************)
(* filtered_token.py: AutoPostgresScanner                                  *)
(***************************************************************************)
ftRest ==
    /\ ft_progress = [last_scanned_block |-> START_BLOCK - 1,
                      total_blocks_scanned |-> 0,
                      target_token_trades |-> 0]
    /\ ft_pc = "idle"
    /\ ft_cur = 0
    /\ ft_end = 0
    /\ ft_batch_end = 0
    /\ ft_block = 0
    /\ ft_batch_trades = 0
    /\ ft_failed = {}
    /\ ft_runs = 0

FTInit ==
    /\ target_token_trades = {}
    /\ ftRest

\* the scanner is not running
FTIdle == FTInit

\* scan_for_target_tokens(start_block, end_block): entry
FTStartScan ==
    /\ ft_pc = "idle"
    /\ ft_runs < MaxRuns
    /\ \E s \in Blocks, e \in Blocks :
          /\ ft_cur' = s
          /\ ft_end' = e
    /\ ft_runs' = ft_runs + 1
    /\ ft_pc' = "loop"
    /\ UNCHANGED <<target_token_trades, ft_progress, ft_batch_end, ft_block,
                   ft_batch_trades, ft_failed,
                   otherThanFT>>

\* while current_batch_start <= end_block: start of a batch
FTBeginBatch ==
    /\ ft_pc = "loop"
    /\ ft_cur <= ft_end
    /\ ft_batch_end' = Min(ft_cur + BATCH_SIZE - 1, ft_end)
    /\ ft_block' = ft_cur
    /\ ft_batch_trades' = 0
    /\ ft_failed' = {}
    /\ ft_pc' = "blocks"
    /\ UNCHANGED <<target_token_trades, ft_progress, ft_cur, ft_end, ft_runs,
                   otherThanFT>>

\* one iteration of the for loop whose body does not raise
FTProcessBlock ==
    /\ ft_pc = "blocks"
    /\ ft_block <= ft_batch_end
    /\ \E trades \in SeqsUpTo(FtTradesOf(ft_block), MaxTradesPerTx) :
          /\ target_token_trades' = save_trades(target_token_trades, trades)
          /\ ft_batch_trades' = ft_batch_trades + Len(trades)
    /\ ft_block' = ft_block + 1
    /\ UNCHANGED <<ft_progress, ft_pc, ft_cur, ft_end, ft_batch_end, ft_failed,
                   ft_runs,
                   otherThanFT>>

\* one iteration of the for loop whose get_block raises: logged, continue
FTProcessBlockError ==
    /\ ft_pc = "blocks"
    /\ ft_block <= ft_batch_end
    /\ ft_failed' = ft_failed \cup {ft_block}
    /\ ft_block' = ft_block + 1
    /\ UNCHANGED <<target_token_trades, ft_progress, ft_pc, ft_cur, ft_end,
                   ft_batch_end, ft_batch_trades, ft_runs,
                   otherThanFT>>

\* after the for loop: update_progress(batch_end, ...), next batch
FTEndBatch ==
    /\ ft_pc = "blocks"
    /\ ft_block > ft_batch_end
    /\ ft_progress' = update_progress(ft_progress, ft_batch_end,
                                      ft_batch_end - ft_cur + 1, ft_batch_trades)
    /\ ft_cur' = ft_batch_end + 1
    /\ ft_pc' = "loop"
    /\ UNCHANGED <<target_token_trades, ft_end, ft_batch_end, ft_block,
                   ft_batch_trades, ft_failed, ft_runs,
                   otherThanFT>>

\* the while loop ends: return target_trades
FTFinish ==
    /\ ft_pc = "loop"
    /\ ft_cur > ft_end
    /\ ft_pc' = "idle"
    /\ ft_cur' = 0
    /\ ft_end' = 0
    /\ ft_batch_end' = 0
    /\ ft_block' = 0
    /\ ft_batch_trades' = 0
    /\ ft_failed' = {}
    /\ UNCHANGED <<target_token_trades, ft_progress, ft_runs,
                   otherThanFT>>

NextFT ==
    \/ FTStartScan
    \/ FTBeginBatch
    \/ FTProcessBlock
    \/ FTProcessBlockError
    \/ FTEndBatch
    \/ FTFinish


(***************************************************************************)
(* Strings: sequences of one-character strings, so that lower(), slicing   *)
(* and concatenation are computed as Python computes them.                 *)
(***************************************************************************)
\* paraswap-incremental.py:316 topics[1][-40:], the 40 hex digits of an address, scaled
ADDR_HEX_LEN == 2

\* the zero digits that pad an address to a 32-byte topic (24 on chain), scaled
TopicPadLen == 1

\* topics a log of the modelled chain holds at most
MaxTopics == 4

AddrChars == {"a", "A", "b"}

LowerChar(c) == CASE c = "A" -> "a" [] c = "B" -> "b" [] OTHER -> c

\* str.lower()
lower(s) == [i \in 1 .. Len(s) |-> LowerChar(s[i])]

\* s[-n:]
LastChars(s, n) == IF Len(s) <= n THEN s ELSE SubSeq(s, Len(s) - n + 1, Len(s))

HexPrefix == <<"0", "x">>

\* the hex digits of an address, in any letter case
Addresses == [1 .. ADDR_HEX_LEN -> AddrChars]

LowerAddresses == {a \in Addresses : lower(a) = a}

\* an indexed address argument as a 32-byte topic
EncodeTopic(addr) == HexPrefix \o [i \in 1 .. TopicPadLen |-> "0"] \o addr

\* paraswap-incremental.py:44
TRANSFER_EVENT_SIG == <<"0", "x", "d", "d", "f">>

RouterDigits == <<"a", "b">>

\* paraswap-incremental.py:45
PARASWAP_ADDRESS == HexPrefix \o RouterDigits

\* the sets load_arena_token_set can return: lower-case, 0x-prefixed addresses
ArenaTokenSets == SUBSET {HexPrefix \o a : a \in LowerAddresses}

(***************************************************************************)
(* paraswap-incremental.py:311-330: the filter of scan_incremental_blocks  *)
(***************************************************************************)
LogKeptNoLower(log, arena_tokens) ==
    LET topics == log.topics IN
    IF Len(topics) >= 3
    THEN LET from_addr == HexPrefix \o LastChars(topics[2], ADDR_HEX_LEN)
             to_addr == HexPrefix \o LastChars(topics[3], ADDR_HEX_LEN)
             token_address == log.address
         IN  /\ \/ lower(from_addr) = lower(PARASWAP_ADDRESS)
                \/ lower(to_addr) = lower(PARASWAP_ADDRESS)
             /\ token_address \in arena_tokens
    ELSE FALSE

LogKept(log, arena_tokens) ==
    LET topics == log.topics IN
    IF Len(topics) >= 3
    THEN LET from_addr == HexPrefix \o LastChars(topics[2], ADDR_HEX_LEN)
             to_addr == HexPrefix \o LastChars(topics[3], ADDR_HEX_LEN)
             token_address == lower(log.address)
         IN  /\ \/ lower(from_addr) = lower(PARASWAP_ADDRESS)
                \/ lower(to_addr) = lower(PARASWAP_ADDRESS)
             /\ token_address \in arena_tokens
    ELSE FALSE

HexDigitSeq == <<"0", "1", "2", "3", "4", "5", "6", "7",
                 "8", "9", "a", "b", "c", "d", "e", "f">>

RECURSIVE HexDigitsOf(_)
HexDigitsOf(n) ==
    IF n < 16 THEN <<HexDigitSeq[n + 1]>>
    ELSE HexDigitsOf(n \div 16) \o <<HexDigitSeq[(n % 16) + 1]>>

\* hex(n) of a non-negative integer
hex(n) == HexPrefix \o HexDigitsOf(n)

HexDigitValue(c) == CHOOSE v \in 0 .. 15 : HexDigitSeq[v + 1] = LowerChar(c)

RECURSIVE IntOfHexDigits(_)
IntOfHexDigits(d) ==
    IF d = <<>> THEN 0
    ELSE IntOfHexDigits(SubSeq(d, 1, Len(d) - 1)) * 16 + HexDigitValue(d[Len(d)])

\* int(s, 16) of a string with an 0x prefix
int16(s) == IntOfHexDigits(SubSeq(s, 3, Len(s)))

\* a Transfer log of `token` from `from` to `to` carrying n topics
TransferLog(token, from, to, n, h, b) ==
    [address |-> HexPrefix \o token,
     topics |-> SubSeq(<<TRANSFER_EVENT_SIG, EncodeTopic(from), EncodeTopic(to),
                         EncodeTopic(to)>>, 1, n),
     transactionHash |-> h,
     blockNumber |-> hex(b),
     data |-> HexPrefix \o <<"0", "2">>]

FLIdle ==
    /\ fl_from = <<>>
    /\ fl_to = <<>>
    /\ fl_log = <<>>
    /\ fl_tokens = {}
    /\ fl_kept = "none"

FLInit ==
    /\ fl_from \in Addresses
    /\ fl_to \in Addresses
    /\ \E token \in Addresses, n \in 0 .. MaxTopics :
          fl_log = TransferLog(token, fl_from, fl_to, n, 0, 0)
    /\ fl_tokens \in ArenaTokenSets
    /\ fl_kept = "none"

\* one iteration of `for log in logs` (lines 312-330)
FLFilter ==
    /\ fl_kept = "none"
    /\ fl_kept' = IF LogKept(fl_log, fl_tokens) THEN "kept" ELSE "dropped"
    /\ UNCHANGED <<fl_from, fl_to, fl_log, fl_tokens, otherThanFL>>

NextFilter == FLFilter

(***************************************************************************)
(* multi.py: SimpleWorker.save_simple_trade                                *)
(***************************************************************************)
\* trade_data of process_block_range (lines 236-246) as the row the INSERT writes
MuTrade(h, b, u) ==
    [tx_hash |-> h, block_number |-> b, user_address |-> u,
     token_in_symbol |-> "UNKNOWN", token_out_symbol |-> "TARGET",
     trade_type |-> "SWAP", contract_used |-> "ParaSwap",
     is_target_token_in |-> TRUE, is_target_token_out |-> TRUE]

save_simple_trade(table, trade_data) == InsertOnConflictDoNothing(table, trade_data)

(***************************************************************************)
(* Direct calls of the two save methods, with any trade                    *)
(***************************************************************************)
Users == {"alice", "bob"}

NoTrade == [tx_hash |-> -1]

SVIdle == sv_last = NoTrade

SVInit ==
    /\ target_token_trades = {}
    /\ sv_last = NoTrade

\* AutoPostgresScanner.save_trade(trade)
SVSaveTrade ==
    \E h \in TxHashes, u \in Users, ty \in {"BUY", "SELL"} :
        LET trade == FtTrade(h, h, u, ty) IN
        /\ target_token_trades' = save_trade(target_token_trades, trade)
        /\ sv_last' = trade
        /\ UNCHANGED otherThanSV

\* SimpleWorker.save_simple_trade(trade_data)
SVSaveSimpleTrade ==
    \E h \in TxHashes, u \in Users :
        LET trade_data == MuTrade(h, h, u) IN
        /\ target_token_trades' = save_simple_trade(target_token_trades, trade_data)
        /\ sv_last' = trade_data
        /\ UNCHANGED otherThanSV

NextSave ==
    \/ SVSaveTrade
    \/ SVSaveSimpleTrade

(***************************************************************************)
(* multi.py:373-396 and scripts/paraswap_backfill.py:429-450: the loops    *)
(* that build the work assignments                                         *)
(***************************************************************************)
\* highest block number of the ranges that are partitioned
MaxPartBlock == 6

\* largest number of workers the partitioning is checked for
MaxWorkers == 4

\* multi.py:389-392 without the special case of the last worker
MultiWorkerEndNoLast(i, n, current_start, blocks_per_worker, end_block) ==
    current_start + blocks_per_worker - 1

\* multi.py:389-392
MultiWorkerEnd(i, n, current_start, blocks_per_worker, end_block) ==
    IF i = n - 1
    THEN end_block
    ELSE current_start + blocks_per_worker - 1

\* paraswap_backfill.py:447
BackfillWorkerEnd(i, n, current_start, blocks_per_worker, end_block) ==
    Min(current_start + blocks_per_worker - 1, end_block)

\* total_blocks // NUM_THREADS (multi.py:376-377, paraswap_backfill.py:434-435)
BlocksPerWorker(start_block, end_block, n) == (end_block - start_block + 1) \div n

PTIdle ==
    /\ pt_algo = "none"
    /\ pt_start = 0
    /\ pt_end = 0
    /\ pt_n = 1
    /\ pt_i = 0
    /\ pt_cur = 0
    /\ pt_assign = <<>>

PTInit ==
    /\ pt_algo \in {"multi", "backfill"}
    /\ pt_start \in 0 .. MaxPartBlock
    /\ pt_end \in pt_start .. MaxPartBlock
    /\ pt_n \in 1 .. MaxWorkers
    /\ pt_i = 0
    /\ pt_cur = pt_start
    /\ pt_assign = <<>>

\* one iteration of `for i in range(NUM_THREADS)` of scan_parallel
PTScanParallelStep ==
    /\ pt_algo = "multi"
    /\ pt_i < pt_n
    /\ LET worker_end == MultiWorkerEnd(pt_i, pt_n, pt_cur,
                             BlocksPerWorker(pt_start, pt_end, pt_n), pt_end)
       IN  /\ pt_assign' = Append(pt_assign, <<pt_cur, worker_end>>)
           /\ pt_cur' = worker_end + 1
    /\ pt_i' = pt_i + 1
    /\ UNCHANGED <<pt_algo, pt_start, pt_end, pt_n, otherThanPT>>

\* one iteration of `for i in range(NUM_WORKERS)` of run_parallel_backfill
PTBackfillStep ==
    /\ pt_algo = "backfill"
    /\ pt_i < pt_n
    /\ LET worker_end == BackfillWorkerEnd(pt_i, pt_n, pt_cur,
                             BlocksPerWorker(pt_start, pt_end, pt_n), pt_end)
       IN  /\ pt_assign' = Append(pt_assign, <<pt_cur, worker_end>>)
           /\ pt_cur' = worker_end + 1
    /\ pt_i' = pt_i + 1
    /\ UNCHANGED <<pt_algo, pt_start, pt_end, pt_n, otherThanPT>>

NextPartition ==
    \/ PTScanParallelStep
    \/ PTBackfillStep

\* the blocks range(range_start, range_end + 1) iterates over
WorkerBlocks(a) == {b \in a[1] .. a[2] : TRUE}

(***************************************************************************)
(* multi.py: scan_parallel and SimpleWorker.process_block_range            *)
(***************************************************************************)
\* multi.py:72 NUM_THREADS = len(RPC_ENDPOINTS), 3 without premium endpoints
NUM_THREADS == 3

\* highest block number scan_parallel is given
MuMaxBlock == 3

MuBlocks == 0 .. MuMaxBlock

Workers == 1 .. NUM_THREADS

\* work_assignments of scan_parallel (lines 385-396), worker i at index i + 1
RECURSIVE WorkAssignments(_, _, _, _, _)
WorkAssignments(i, n, current_start, start_block, end_block) ==
    IF i >= n THEN <<>>
    ELSE LET worker_end == MultiWorkerEnd(i, n, current_start,
                               BlocksPerWorker(start_block, end_block, n), end_block)
         IN  <<<<current_start, worker_end>>>>
                 \o WorkAssignments(i + 1, n, worker_end + 1, start_block, end_block)

MUIdle ==
    /\ mu_pc = "idle"
    /\ mu_start = 0
    /\ mu_end = 0
    /\ mu_assign = <<>>
    /\ mu_next = <<>>
    /\ mu_examined = [b \in MuBlocks |-> 0]
    /\ mu_runs = 0

MUInit ==
    /\ target_token_trades = {}
    /\ MUIdle

\* scan_parallel(start_block, end_block): assignments made, workers submitted
MUStart ==
    /\ mu_pc = "idle"
    /\ mu_runs < MaxRuns
    /\ \E s \in MuBlocks, e \in MuBlocks :
          /\ mu_start' = s
          /\ mu_end' = e
          /\ mu_assign' = WorkAssignments(0, NUM_THREADS, s, s, e)
          /\ mu_next' = [w \in Workers |->
                            WorkAssignments(0, NUM_THREADS, s, s, e)[w][1]]
    /\ mu_examined' = [b \in MuBlocks |-> 0]
    /\ mu_runs' = mu_runs + 1
    /\ mu_pc' = "running"
    /\ UNCHANGED <<target_token_trades, otherThanMU>>

\* worker w: one iteration of process_block_range whose get_block succeeds;
\* the block's transaction is a target trade (saved) or not
MUProcessBlock(w) ==
    /\ mu_pc = "running"
    /\ mu_next[w] <= mu_assign[w][2]
    /\ LET b == mu_next[w] IN
       /\ mu_examined' = [mu_examined EXCEPT ![b] = @ + 1]
       /\ \E is_target_trade \in BOOLEAN :
             target_token_trades' =
                 IF is_target_trade
                 THEN save_simple_trade(target_token_trades, MuTrade(b, b, TxFrom(b)))
                 ELSE target_token_trades
    /\ mu_next' = [mu_next EXCEPT ![w] = @ + 1]
    /\ UNCHANGED <<mu_pc, mu_start, mu_end, mu_assign, mu_runs, otherThanMU>>

\* worker w: one iteration whose get_block raises: errors += 1, continue
MUProcessBlockError(w) ==
    /\ mu_pc = "running"
    /\ mu_next[w] <= mu_assign[w][2]
    /\ mu_next' = [mu_next EXCEPT ![w] = @ + 1]
    /\ UNCHANGED <<target_token_trades, mu_pc, mu_start, mu_end, mu_assign,
                   mu_examined, mu_runs, otherThanMU>>

\* every future has completed: scan_parallel returns
MUFinish ==
    /\ mu_pc = "running"
    /\ \A w \in Workers : mu_next[w] > mu_assign[w][2]
    /\ mu_pc' = "idle"
    /\ UNCHANGED <<target_token_trades, mu_start, mu_end, mu_assign, mu_next,
                   mu_examined, mu_runs, otherThanMU>>

NextMulti ==
    \/ MUStart
    \/ \E w \in Workers : MUProcessBlock(w)
    \/ \E w \in Workers : MUProcessBlockError(w)
    \/ MUFinish

(***************************************************************************)
(* paraswap-incremental.py: the incremental scanner                        *)
(***************************************************************************)
\* highest chain head the model follows
PsMaxHead == 4

\* paraswap-incremental.py:48 FALLBACK_START_BLOCK = 61473123, scaled
FALLBACK_START_BLOCK == 0

\* paraswap-incremental.py:49 BLOCK_CHUNK_SIZE = 2000, scaled
BLOCK_CHUNK_SIZE == 2

\* paraswap-incremental.py:333 a checkpoint every 50 chunks, scaled
CHECKPOINT_EVERY == 1

PsChainBlocks == (FALLBACK_START_BLOCK + 1) .. PsMaxHead

PsLogKinds == {"none", "buy", "sell"}

ArenaTokenDigits == <<"b", "a">>

TraderDigits == <<"a", "a">>

\* arena_tokens as load_arena_token_set returns it
PsArenaTokens == {HexPrefix \o ArenaTokenDigits}

\* the logs the transaction of block b emits; its hash is b
PsLogsOfBlock(chain, b) ==
    CASE chain[b] = "buy" ->
            <<TransferLog(ArenaTokenDigits, RouterDigits, TraderDigits, 3, b, b)>>
      [] chain[b] = "sell" ->
            <<TransferLog(ArenaTokenDigits, TraderDigits, RouterDigits, 3, b, b)>>
      [] OTHER -> <<>>

\* eth_getLogs with fromBlock..toBlock inclusive
RECURSIVE LogsOfRange(_, _, _)
LogsOfRange(chain, from, to) ==
    IF from > to THEN <<>>
    ELSE (IF from \in DOMAIN chain THEN PsLogsOfBlock(chain, from) ELSE <<>>)
            \o LogsOfRange(chain, from + 1, to)

get_logs(chain, from_block, to_block) ==
    LogsOfRange(chain, int16(from_block), int16(to_block))

\* lines 284-291 with current_start = current_end + 1
RECURSIVE BlockChunksSkipBoundary(_, _)
BlockChunksSkipBoundary(current_start, end_block) ==
    IF current_start < end_block
    THEN LET current_end == Min(current_start + BLOCK_CHUNK_SIZE, end_block)
         IN  <<<<current_start, current_end>>>>
                 \o BlockChunksSkipBoundary(current_end + 1, end_block)
    ELSE <<>>

\* lines 284-291: block_chunks
RECURSIVE BlockChunks(_, _)
BlockChunks(current_start, end_block) ==
    IF current_start < end_block
    THEN LET current_end == Min(current_start + BLOCK_CHUNK_SIZE, end_block)
         IN  <<<<current_start, current_end>>>> \o BlockChunks(current_end, end_block)
    ELSE <<>>

\* lines 312-330: the logs of one response that are appended
RECURSIVE KeptLogs(_, _)
KeptLogs(logs, arena_tokens) ==
    IF logs = <<>> THEN <<>>
    ELSE (IF LogKept(Head(logs), arena_tokens) THEN <<Head(logs)>> ELSE <<>>)
            \o KeptLogs(Tail(logs), arena_tokens)

\* lines 358-361: the keys of logs_by_tx in insertion order
RECURSIVE TxOrder(_, _)
TxOrder(logs, seen) ==
    IF logs = <<>> THEN <<>>
    ELSE IF Head(logs).transactionHash \in seen
         THEN TxOrder(Tail(logs), seen)
         ELSE <<Head(logs).transactionHash>>
                 \o TxOrder(Tail(logs), seen \cup {Head(logs).transactionHash})

\* lines 382-412 with the recipient tested before the sender
RecordOfLogSellFirst(log, tx_hash, real_user) ==
    IF Len(log.topics) < 3 THEN <<>>
    ELSE LET from_addr == HexPrefix \o LastChars(log.topics[2], ADDR_HEX_LEN)
             to_addr == HexPrefix \o LastChars(log.topics[3], ADDR_HEX_LEN)
             is_sell == lower(to_addr) = lower(PARASWAP_ADDRESS)
             is_buy == lower(from_addr) = lower(PARASWAP_ADDRESS)
         IN  IF is_sell \/ is_buy
             THEN <<[block_number |-> int16(log.blockNumber),
                     tx_hash |-> tx_hash,
                     token_address |-> lower(log.address),
                     real_user |-> real_user,
                     counterparty |-> IF is_sell THEN lower(from_addr)
                                      ELSE lower(to_addr),
                     from_address |-> lower(from_addr),
                     to_address |-> lower(to_addr),
                     amount |-> IF log.data = HexPrefix THEN 0 ELSE int16(log.data),
                     label |-> IF is_sell THEN "SELL" ELSE "BUY"]>>
             ELSE <<>>

\* lines 382-416: the body of `for log in logs`, the records it appends.
\* topics[1] or topics[2] of a log with fewer than 3 topics raises IndexError,
\* which the inner except turns into `continue`
RecordOfLog(log, tx_hash, real_user) ==
    IF Len(log.topics) < 3 THEN <<>>
    ELSE LET from_addr == HexPrefix \o LastChars(log.topics[2], ADDR_HEX_LEN)
             to_addr == HexPrefix \o LastChars(log.topics[3], ADDR_HEX_LEN)
             is_buy == lower(from_addr) = lower(PARASWAP_ADDRESS)
             is_sell == lower(to_addr) = lower(PARASWAP_ADDRESS)
         IN  IF is_buy \/ is_sell
             THEN <<[block_number |-> int16(log.blockNumber),
                     tx_hash |-> tx_hash,
                     token_address |-> lower(log.address),
                     real_user |-> real_user,
                     counterparty |-> IF is_buy THEN lower(to_addr)
                                      ELSE lower(from_addr),
                     from_address |-> lower(from_addr),
                     to_address |-> lower(to_addr),
                     amount |-> IF log.data = HexPrefix THEN 0 ELSE int16(log.data),
                     label |-> IF is_buy THEN "BUY" ELSE "SELL"]>>
             ELSE <<>>

\* lines 382-416: the records of the logs of transaction tx_hash
RECURSIVE RecordsOfTx(_, _, _)
RecordsOfTx(logs, tx_hash, real_user) ==
    IF logs = <<>> THEN <<>>
    ELSE (IF Head(logs).transactionHash = tx_hash
          THEN RecordOfLog(Head(logs), tx_hash, real_user) ELSE <<>>)
            \o RecordsOfTx(Tail(logs), tx_hash, real_user)

\* tx_data['from'] of eth_getTransactionByHash
PsTxFrom(h) == HexPrefix \o <<"A", "b">>

\* lines 366-420: outcome[h] is what get_transaction(h) did
RECURSIVE ProcessTxs(_, _, _)
ProcessTxs(order, logs, outcome) ==
    IF order = <<>> THEN <<>>
    ELSE (IF outcome[Head(order)] = "ok"
          THEN RecordsOfTx(logs, Head(order), lower(PsTxFrom(Head(order))))
          ELSE <<>>)
            \o ProcessTxs(Tail(order), logs, outcome)

process_transactions_and_get_users(logs, outcome) ==
    ProcessTxs(TxOrder(logs, {}), logs, outcome)

\* lines 467-484: the table has no unique constraint besides the serial id, so
\* INSERT ... ON CONFLICT DO NOTHING inserts every row
upload_new_data_to_database(users, user_transactions) ==
    users \o user_transactions

\* lines 136-171: the fallback, or MAX(block_number)
RECURSIVE MaxBlockNumber(_)
MaxBlockNumber(users) ==
    IF Len(users) = 1 THEN users[1].block_number
    ELSE LET m == MaxBlockNumber(Tail(users))
         IN  IF users[1].block_number >= m THEN users[1].block_number ELSE m

get_last_scanned_block(users_exists, users) ==
    IF ~users_exists THEN FALLBACK_START_BLOCK
    ELSE IF users = <<>> THEN FALLBACK_START_BLOCK
    ELSE MaxBlockNumber(users)

NoCheckpointTable == [exists |-> FALSE, unique |-> FALSE, rows |-> <<>>]

\* lines 189-232. The transaction is rolled back, leaving the table as it was,
\* when paraswap_arena_users does not exist (SELECT COUNT(*) fails) or when
\* scan_type carries no unique constraint (ON CONFLICT (scan_type) is rejected)
create_scanning_checkpoint(ckpt, users_exists, users, block_number) ==
    IF ~users_exists \/ ~(ckpt.exists /\ ckpt.unique)
    THEN ckpt
    ELSE LET row == [scan_type |-> "incremental",
                     last_block |-> block_number,
                     total_transactions |-> Len(users),
                     unique_users |->
                         Cardinality({users[k].real_user : k \in 1 .. Len(users)})]
         IN  IF \E k \in 1 .. Len(ckpt.rows) : ckpt.rows[k].scan_type = "incremental"
             THEN [ckpt EXCEPT !.rows =
                      [k \in 1 .. Len(ckpt.rows) |->
                          IF ckpt.rows[k].scan_type = "incremental"
                          THEN row ELSE ckpt.rows[k]]]
             ELSE [ckpt EXCEPT !.rows = Append(ckpt.rows, row)]

CheckpointSavedAt(ckpt, b) ==
    \E k \in 1 .. Len(ckpt.rows) :
        ckpt.rows[k].scan_type = "incremental" /\ ckpt.rows[k].last_block = b

psRunRest ==
    /\ ps_pc = "idle"
    /\ ps_start = 0
    /\ ps_latest = FALLBACK_START_BLOCK
    /\ ps_resumed = FALSE
    /\ ps_chunks = <<>>
    /\ ps_i = 0
    /\ ps_logs = <<>>
    /\ ps_user_txs = <<>>
    /\ ps_requests = <<>>
    /\ ps_prev = [latest |-> -1, saved |-> FALSE]
    /\ ps_runs = 0

PSIdle ==
    /\ ps_chain = <<>>
    /\ ps_users_exists = FALSE
    /\ ps_users = <<>>
    /\ ps_ckpt = NoCheckpointTable
    /\ psRunRest

PSInit ==
    /\ ps_chain \in [PsChainBlocks -> PsLogKinds]
    /\ ps_users_exists = FALSE
    /\ ps_users = <<>>
    /\ ps_ckpt \in {NoCheckpointTable,
                    [exists |-> TRUE, unique |-> TRUE, rows |-> <<>>]}
    /\ psRunRest

\* lines 498-537: the set-up of a run up to the call of scan_incremental_blocks
PSStart ==
    /\ ps_pc = "idle"
    /\ ps_runs < MaxRuns
    /\ ps_runs' = ps_runs + 1
    /\ \E latest \in ps_latest .. PsMaxHead, db_ok \in BOOLEAN :
          LET last == IF db_ok THEN get_last_scanned_block(ps_users_exists, ps_users)
                      ELSE FALLBACK_START_BLOCK
              start == last + 1
          IN  /\ ps_latest' = latest
              /\ ps_start' = start
              /\ ps_resumed' = db_ok
              /\ IF latest - start <= 0
                 THEN /\ ps_pc' = "idle"
                      /\ ps_chunks' = <<>>
                 ELSE /\ ps_pc' = "scan"
                      /\ ps_chunks' = BlockChunks(start, latest)
    /\ ps_i' = 0
    /\ ps_logs' = <<>>
    /\ ps_user_txs' = <<>>
    /\ ps_requests' = <<>>
    /\ UNCHANGED <<ps_chain, ps_users_exists, ps_users, ps_ckpt, ps_prev, otherThanPS>>

\* lines 295-338: one chunk whose eth_getLogs succeeds
PSChunk ==
    /\ ps_pc = "scan"
    /\ ps_i < Len(ps_chunks)
    /\ LET chunk_start == ps_chunks[ps_i + 1][1]
           chunk_end == ps_chunks[ps_i + 1][2]
           logs == get_logs(ps_chain, hex(chunk_start), hex(chunk_end))
       IN  /\ ps_requests' = Append(ps_requests, <<chunk_start, chunk_end>>)
           /\ ps_logs' = ps_logs \o KeptLogs(logs, PsArenaTokens)
           /\ ps_ckpt' = IF (ps_i + 1) % CHECKPOINT_EVERY = 0
                         THEN create_scanning_checkpoint(ps_ckpt, ps_users_exists,
                                                         ps_users, chunk_end)
                         ELSE ps_ckpt
    /\ ps_i' = ps_i + 1
    /\ UNCHANGED <<ps_chain, ps_users_exists, ps_users, ps_pc, ps_start, ps_latest,
                   ps_resumed, ps_chunks, ps_user_txs, ps_prev, ps_runs, otherThanPS>>

\* lines 340-342: one chunk whose eth_getLogs raises
PSChunkError ==
    /\ ps_pc = "scan"
    /\ ps_i < Len(ps_chunks)
    /\ ps_requests' = Append(ps_requests, ps_chunks[ps_i + 1])
    /\ ps_i' = ps_i + 1
    /\ UNCHANGED <<ps_chain, ps_users_exists, ps_users, ps_ckpt, ps_pc, ps_start,
                   ps_latest, ps_resumed, ps_chunks, ps_logs, ps_user_txs, ps_prev,
                   ps_runs, otherThanPS>>

\* lines 540-542: process_transactions_and_get_users
PSProcess ==
    /\ ps_pc = "scan"
    /\ ps_i = Len(ps_chunks)
    /\ \E outcome \in [{ps_logs[k].transactionHash : k \in 1 .. Len(ps_logs)}
                          -> {"ok", "none", "error"}] :
          ps_user_txs' = process_transactions_and_get_users(ps_logs, outcome)
    /\ ps_pc' = "upload"
    /\ UNCHANGED <<ps_chain, ps_users_exists, ps_users, ps_ckpt, ps_start, ps_latest,
                   ps_resumed, ps_chunks, ps_i, ps_logs, ps_requests, ps_prev,
                   ps_runs, otherThanPS>>

\* line 545: upload_new_data_to_database commits
PSUpload ==
    /\ ps_pc = "upload"
    /\ ps_users' = IF ps_user_txs = <<>> THEN ps_users
                   ELSE upload_new_data_to_database(ps_users, ps_user_txs)
    /\ ps_users_exists' = (ps_users_exists \/ ps_user_txs # <<>>)
    /\ ps_pc' = "final"
    /\ UNCHANGED <<ps_chain, ps_ckpt, ps_start, ps_latest, ps_resumed, ps_chunks,
                   ps_i, ps_logs, ps_user_txs, ps_requests, ps_prev, ps_runs,
                   otherThanPS>>

\* lines 489-490: upload_new_data_to_database fails and logs the error
PSUploadError ==
    /\ ps_pc = "upload"
    /\ ps_user_txs # <<>>
    /\ ps_pc' = "final"
    /\ UNCHANGED <<ps_chain, ps_users_exists, ps_users, ps_ckpt, ps_start, ps_latest,
                   ps_resumed, ps_chunks, ps_i, ps_logs, ps_user_txs, ps_requests,
                   ps_prev, ps_runs, otherThanPS>>

\* lines 547-564: the final checkpoint, the run completes
PSFinalCheckpoint ==
    /\ ps_pc = "final"
    /\ ps_ckpt' = create_scanning_checkpoint(ps_ckpt, ps_users_exists, ps_users,
                                             ps_latest)
    /\ ps_prev' = [latest |-> ps_latest,
                   saved |-> CheckpointSavedAt(ps_ckpt', ps_latest)]
    /\ ps_pc' = "idle"
    /\ UNCHANGED <<ps_chain, ps_users_exists, ps_users, ps_start, ps_latest,
                   ps_resumed, ps_chunks, ps_i, ps_logs, ps_user_txs, ps_requests,
                   ps_runs, otherThanPS>>

NextPS ==
    \/ PSStart
    \/ PSChunk
    \/ PSChunkError
    \/ PSProcess
    \/ PSUpload
    \/ PSUploadError
    \/ PSFinalCheckpoint

(***************************************************************************)
(* Direct calls of upload_new_data_to_database (paraswap-incremental.py)   *)
(* and upload_user_data_to_database (scripts/paraswap1.py:379-433)         *)
(***************************************************************************)
\* longest list of user transactions passed to the upload
MaxUploadLen == 3

\* the user transactions a scan of a chain of alternating BUYs and SELLs yields
UploadTxs ==
    LET chain == [b \in PsChainBlocks |-> IF b % 2 = 1 THEN "buy" ELSE "sell"]
        logs == LogsOfRange(chain, FALLBACK_START_BLOCK + 1, PsMaxHead)
        recs == process_transactions_and_get_users(logs,
                    [h \in PsChainBlocks |-> "ok"])
    IN  {recs[k] : k \in 1 .. Len(recs)}

UPIdle ==
    /\ up_list = <<>>
    /\ up_calls = 0
    /\ up_first = <<>>

UPInit ==
    /\ ps_users_exists = FALSE
    /\ ps_users = <<>>
    /\ up_list \in SeqsUpTo(UploadTxs, MaxUploadLen)
    /\ up_calls = 0
    /\ up_first = <<>>

\* a call that commits
UPUpload ==
    /\ up_calls < 2
    /\ ps_users' = IF up_list = <<>> THEN ps_users
                   ELSE upload_new_data_to_database(ps_users, up_list)
    /\ ps_users_exists' = (ps_users_exists \/ up_list # <<>>)
    /\ up_first' = IF up_calls = 0 THEN ps_users' ELSE up_first
    /\ up_calls' = up_calls + 1
    /\ UNCHANGED <<up_list, otherThanUP>>

NextUpload == UPUpload

(***************************************************************************)
(* Direct calls of process_transactions_and_get_users with a single log,   *)
(* whatever its sender, recipient and number of topics                     *)
(***************************************************************************)
CLIdle ==
    /\ cl_from = <<>>
    /\ cl_to = <<>>
    /\ cl_log = TransferLog(ArenaTokenDigits, <<>>, <<>>, 0, 0, 0)
    /\ cl_outcome = "none"
    /\ cl_recs = <<>>
    /\ cl_pc = "idle"

CLInit ==
    /\ cl_from \in Addresses
    /\ cl_to \in Addresses
    /\ \E n \in 1 .. MaxTopics :
          cl_log = TransferLog(ArenaTokenDigits, cl_from, cl_to, n, 1, 1)
    /\ cl_outcome = "none"
    /\ cl_recs = <<>>
    /\ cl_pc = "call"

\* process_transactions_and_get_users(rpc_client, [cl_log])
CLProcess ==
    /\ cl_pc = "call"
    /\ \E o \in {"ok", "none", "error"} :
          /\ cl_outcome' = o
          /\ cl_recs' = process_transactions_and_get_users(<<cl_log>>,
                            [h \in {cl_log.transactionHash} |-> o])
    /\ cl_pc' = "done"
    /\ UNCHANGED <<cl_from, cl_to, cl_log, otherThanCL>>

NextClassify == CLProcess

(***************************************************************************)
(* token_deployments: every operation of the repository that writes it     *)
(***************************************************************************)
\* number of token addresses
MaxTokens == 3

TdTokens == 1 .. MaxTokens

\* bondingProgress values the subgraph reports
TdProgress == {0, 100}

TdRow(id, progress, lp) == [id |-> id, bonding_progress |-> progress, lp_deployed |-> lp]

TdIds(rows) == {r.id : r \in rows}

TDIdle ==
    /\ td_exists = FALSE
    /\ td_rows = {}

\* the graph database before or after setup_graph_database.py created the
\* tables
TDInit ==
    /\ td_exists \in BOOLEAN
    /\ td_rows = {}

\* sync_subgraph_to_db.py:68-108 INSERT ... ON CONFLICT (id) DO UPDATE SET
\* bonding_progress = EXCLUDED.bonding_progress, ...
TDSyncToken ==
    /\ td_exists
    /\ \E id \in TdTokens, progress \in TdProgress :
          td_rows' = IF id \in TdIds(td_rows)
                     THEN {IF r.id = id THEN [r EXCEPT !.bonding_progress = progress]
                           ELSE r : r \in td_rows}
                     ELSE td_rows \cup {TdRow(id, progress, FALSE)}
    /\ UNCHANGED <<td_exists, otherThanTD>>

\* historical_token_scan.py:108-121 INSERT ... ON CONFLICT (transaction_hash)
\* DO NOTHING, one deployment transaction per token
TDSaveDeployment ==
    /\ td_exists
    /\ \E id \in TdTokens :
          td_rows' = IF id \in TdIds(td_rows) THEN td_rows
                     ELSE td_rows \cup {TdRow(id, 0, FALSE)}
    /\ UNCHANGED <<td_exists, otherThanTD>>

\* bonding_tracker.py:155-160, 241-246 UPDATE token_deployments SET
\* lp_deployed = TRUE ... WHERE token_address = %s
TDMarkBonded ==
    /\ td_exists
    /\ \E id \in TdTokens :
          td_rows' = {IF r.id = id THEN [r EXCEPT !.lp_deployed = TRUE] ELSE r
                      : r \in td_rows}
    /\ UNCHANGED <<td_exists, otherThanTD>>

\* migrate_addresses.py:4-40 TRUNCATE TABLE token_deployments CASCADE, the
\* column altered, committed
TDMigrateAddressFields ==
    /\ td_exists
    /\ td_rows' = {}
    /\ UNCHANGED <<td_exists, otherThanTD>>

\* setup_graph_database.py:367-371 drop_graph_tables() then
\* create_graph_tables()
TDSetupDatabase ==
    /\ td_exists' = TRUE
    /\ td_rows' = {}
    /\ UNCHANGED otherThanTD

NextDeployments ==
    \/ TDSyncToken
    \/ TDSaveDeployment
    \/ TDMarkBonded
    \/ TDMigrateAddressFields
    \/ TDSetupDatabase

(***************************************************************************)
(* Direct calls of create_scanning_checkpoint from any database state      *)
(***************************************************************************)
CkRow(scan_type, b) ==
    [scan_type |-> scan_type, last_block |-> b,
     total_transactions |-> 0, unique_users |-> 0]

\* states of paraswap_scan_checkpoints: absent; created by the CREATE TABLE of
\* lines 190-199, which declares no unique constraint; or carrying the
\* unique_scan_type constraint
CkTables ==
    {NoCheckpointTable}
       \cup {[exists |-> TRUE, unique |-> FALSE, rows |-> rows] :
                rows \in {<<>>, <<CkRow("incremental", 0)>>,
                          <<CkRow("incremental", 0), CkRow("incremental", 1)>>}}
       \cup {[exists |-> TRUE, unique |-> TRUE, rows |-> rows] :
                rows \in {<<>>, <<CkRow("incremental", 0)>>, <<CkRow("backfill", 1)>>,
                          <<CkRow("backfill", 1), CkRow("incremental", 0)>>}}

CKIdle ==
    /\ ck_ckpt = NoCheckpointTable
    /\ ck_users_exists = FALSE
    /\ ck_users = <<>>
    /\ ck_block = 0
    /\ ck_pc = "idle"

CKInit ==
    /\ ck_ckpt \in CkTables
    /\ ck_users_exists \in BOOLEAN
    /\ ck_users \in IF ck_users_exists THEN SeqsUpTo(UploadTxs, 1) ELSE {<<>>}
    /\ ck_block \in 0 .. PsMaxHead
    /\ ck_pc = "call"

\* create_scanning_checkpoint(ck_block)
CKCreate ==
    /\ ck_pc = "call"
    /\ ck_ckpt' = create_scanning_checkpoint(ck_ckpt, ck_users_exists, ck_users,
                                             ck_block)
    /\ ck_pc' = "done"
    /\ UNCHANGED <<ck_users_exists, ck_users, ck_block, otherThanCK>>

NextCheckpoint == CKCreate

(***************************************************************************)
(* historical_token_scan.py: TokenScanner.run_continuous_scan              *)
(***************************************************************************)
\* highest chain tip the model follows
HsMaxTip == 3

\* historical_token_scan.py:141, 158 the default block 63418307, scaled
HS_DEFAULT_BLOCK == 0

HsBlocks == HS_DEFAULT_BLOCK .. HsMaxTip

HSIdle ==
    /\ hs_has_row = FALSE
    /\ hs_stored = HS_DEFAULT_BLOCK
    /\ hs_pc = "off"
    /\ hs_start = HS_DEFAULT_BLOCK
    /\ hs_tip = HS_DEFAULT_BLOCK
    /\ hs_at_startup = HS_DEFAULT_BLOCK
    /\ hs_prev_tip = HS_DEFAULT_BLOCK
    /\ hs_scans = 0
    /\ hs_last_start = HS_DEFAULT_BLOCK
    /\ hs_count = [b \in HsBlocks |-> 0]
    /\ hs_runs = 0

HSInit == HSIdle

\* lines 137-173 with block_number None: the value returned
ProgressRead(db_ok, has_row, stored) ==
    IF ~db_ok THEN HS_DEFAULT_BLOCK
    ELSE IF ~has_row THEN HS_DEFAULT_BLOCK
    ELSE stored

\* lines 319-322: start-up, start_block = self._manage_scan_progress()
HSStartup ==
    /\ hs_pc = "off"
    /\ hs_runs < MaxRuns
    /\ hs_runs' = hs_runs + 1
    /\ \E db_ok \in BOOLEAN :
          /\ hs_start' = ProgressRead(db_ok, hs_has_row, hs_stored)
          /\ hs_at_startup' = ProgressRead(db_ok, hs_has_row, hs_stored)
          /\ hs_has_row' = (hs_has_row \/ db_ok)
          /\ hs_stored' = IF db_ok /\ ~hs_has_row THEN HS_DEFAULT_BLOCK ELSE hs_stored
    /\ hs_scans' = 0
    /\ hs_pc' = "loop"
    /\ UNCHANGED <<hs_tip, hs_prev_tip, hs_last_start, hs_count, otherThanHS>>

\* lines 324-333: one iteration with current_tip >= start_block.
\* _manage_scan_progress(current_tip) updates the newest row if there is one
HSScan ==
    /\ hs_pc = "loop"
    /\ \E current_tip \in hs_tip .. HsMaxTip, db_ok \in BOOLEAN :
          /\ current_tip >= hs_start
          /\ hs_tip' = current_tip
          /\ hs_count' = [b \in HsBlocks |->
                            IF b \in hs_start .. current_tip
                            THEN hs_count[b] + 1 ELSE hs_count[b]]
          /\ hs_stored' = IF db_ok /\ hs_has_row THEN current_tip ELSE hs_stored
          /\ hs_start' = current_tip + 1
    /\ hs_last_start' = hs_start
    /\ hs_prev_tip' = hs_tip
    /\ hs_scans' = hs_scans + 1
    /\ UNCHANGED <<hs_has_row, hs_pc, hs_at_startup, hs_runs, otherThanHS>>

\* lines 334-335: one iteration with current_tip < start_block
HSNoNewBlocks ==
    /\ hs_pc = "loop"
    /\ \E current_tip \in hs_tip .. HsMaxTip :
          /\ current_tip < hs_start
          /\ hs_tip' = current_tip
    /\ UNCHANGED <<hs_has_row, hs_stored, hs_pc, hs_start, hs_at_startup,
                   hs_prev_tip, hs_scans, hs_last_start, hs_count, hs_runs,
                   otherThanHS>>

\* the process is stopped between two iterations
HSStop ==
    /\ hs_pc = "loop"
    /\ hs_pc' = "off"
    /\ UNCHANGED <<hs_has_row, hs_stored, hs_start, hs_tip, hs_at_startup,
                   hs_prev_tip, hs_scans, hs_last_start, hs_count, hs_runs,
                   otherThanHS>>

NextHistorical ==
    \/ HSStartup
    \/ HSScan
    \/ HSNoNewBlocks
    \/ HSStop

(***************************************************************************)
(* paraswap-incremental.py: runs that may crash                            *)
(***************************************************************************)
NoCrash == [run |-> 0, start |-> 0, latest |-> 0, requests |-> <<>>]

CRIdle == cr_crash = NoCrash

\* the process dies during the scan, before the upload commits, or between
\* the upload and the final checkpoint
PSCrash ==
    /\ ps_pc \in {"scan", "upload", "final"}
    /\ cr_crash' = [run |-> ps_runs, start |-> ps_start, latest |-> ps_latest,
                    requests |-> ps_requests]
    /\ ps_pc' = "idle"
    /\ UNCHANGED <<ps_users_exists, ps_users, ps_chain, ps_ckpt, ps_start, ps_latest,
                   ps_resumed, ps_chunks, ps_i, ps_logs, ps_user_txs, ps_requests,
                   ps_prev, ps_runs, target_token_trades, ftVars, flVars, svVars,
                   muVars, ptVars, upVars, clVars, tdVars, ckVars, hsVars, chVars,
                   asVars, syVars, pfVars, scVars, rlVars, bfVars,
                   btVars>>

NextPSCrash ==
    \/ NextPS
    \/ PSCrash

(***************************************************************************)
(* The two scan loops called directly: scan_incremental_blocks             *)
(* (paraswap-incremental.py) with any range, or scan_for_target_tokens     *)
(* (filtered_token.py)                                                     *)
(***************************************************************************)
\* highest block of a direct call of scan_incremental_blocks
ChMaxBlock == 5

ChBlocks == 0 .. ChMaxBlock

\* a block holds no Transfer log, or one of an Arena token sent by the router
ChLogKinds == {"none", "buy"}

\* lines 340-342: the index of the chunk the for loop takes after an except
\* that ends the whole scan
ChunkAfterErrorAbort(i, n) == n

\* lines 340-342: the index of the chunk the for loop takes after the except
ChunkAfterError(i, n) == i + 1

CHIdle ==
    /\ ch_which = "none"
    /\ ch_pc = "idle"
    /\ ch_start = 0
    /\ ch_end = 0
    /\ ch_chunks = <<>>
    /\ ch_i = 0
    /\ ch_requests = <<>>
    /\ ch_chain = [b \in ChBlocks |-> "none"]
    /\ ch_logs = <<>>

CHInit ==
    /\ ch_which \in {"incremental", "filtered"}
    /\ ch_pc = "call"
    /\ ch_start \in 0 .. ChMaxBlock
    /\ ch_end \in 0 .. ChMaxBlock
    /\ ch_which = "filtered" => (ch_start = 0 /\ ch_end = 0)
    /\ ch_chunks = <<>>
    /\ ch_i = 0
    /\ ch_requests = <<>>
    /\ ch_chain \in [ChBlocks -> ChLogKinds]
    /\ ch_which = "filtered" => ch_chain = [b \in ChBlocks |-> "none"]
    /\ ch_logs = <<>>

\* lines 274-293: early return, or block_chunks built
CHEnter ==
    /\ ch_which = "incremental"
    /\ ch_pc = "call"
    /\ IF ch_start >= ch_end
       THEN /\ ch_pc' = "done"
            /\ ch_chunks' = <<>>
       ELSE /\ ch_pc' = "scan"
            /\ ch_chunks' = BlockChunks(ch_start, ch_end)
    /\ UNCHANGED <<ch_which, ch_start, ch_end, ch_i, ch_requests, ch_chain, ch_logs,
                   otherThanCH>>

\* lines 295-338: a chunk whose eth_getLogs succeeds
CHChunk ==
    /\ ch_pc = "scan"
    /\ ch_i < Len(ch_chunks)
    /\ ch_requests' = Append(ch_requests,
                             <<ch_chunks[ch_i + 1][1], ch_chunks[ch_i + 1][2], "ok">>)
    /\ ch_logs' = ch_logs \o KeptLogs(get_logs(ch_chain, hex(ch_chunks[ch_i + 1][1]),
                                                hex(ch_chunks[ch_i + 1][2])),
                                       PsArenaTokens)
    /\ ch_i' = ch_i + 1
    /\ UNCHANGED <<ch_which, ch_pc, ch_start, ch_end, ch_chunks, ch_chain,
                   otherThanCH>>

\* lines 340-342: a chunk whose eth_getLogs raises
CHChunkError ==
    /\ ch_pc = "scan"
    /\ ch_i < Len(ch_chunks)
    /\ ch_requests' = Append(ch_requests,
                             <<ch_chunks[ch_i + 1][1], ch_chunks[ch_i + 1][2], "error">>)
    /\ ch_i' = ChunkAfterError(ch_i, Len(ch_chunks))
    /\ UNCHANGED <<ch_which, ch_pc, ch_start, ch_end, ch_chunks, ch_chain, ch_logs,
                   otherThanCH>>

\* lines 344-347: return arena_paraswap_logs
CHReturn ==
    /\ ch_pc = "scan"
    /\ ch_i = Len(ch_chunks)
    /\ ch_pc' = "done"
    /\ UNCHANGED <<ch_which, ch_start, ch_end, ch_chunks, ch_i, ch_requests,
                   ch_chain, ch_logs, otherThanCH>>

NextChunks ==
    \/ CHEnter
    \/ CHChunk
    \/ CHChunkError
    \/ CHReturn

NextScanLoops ==
    \/ NextChunks
    \/ (ch_which = "filtered" /\ NextFT)

(***************************************************************************)
(* multi.py SimpleMultiScanner.setup_tables and filtered_token.py          *)
(* AutoPostgresScanner.setup_output_tables on one reachable database       *)
(***************************************************************************)
\* distinct transaction hashes the two scripts save
MaxScTx == 3

ScScripts == {"multi", "filtered"}

\* multi.py:346-363
MultiColumns ==
    {"id", "tx_hash", "block_number", "timestamp", "user_address", "token_in_symbol",
     "token_out_symbol", "amount_in", "amount_out", "trade_type", "contract_used",
     "is_target_token_in", "is_target_token_out", "created_at"}

\* filtered_token.py:186-207
FilteredColumns ==
    {"id", "tx_hash", "block_number", "timestamp", "user_address",
     "token_in_address", "token_in_symbol", "token_out_address", "token_out_symbol",
     "amount_in", "amount_out", "trade_type", "usd_value", "gas_used",
     "contract_used", "is_target_token_in", "is_target_token_out", "created_at"}

\* multi.py:173-175
MultiInsertColumns ==
    {"tx_hash", "block_number", "timestamp", "user_address", "token_in_symbol",
     "token_out_symbol", "amount_in", "amount_out", "trade_type", "contract_used",
     "is_target_token_in", "is_target_token_out"}

\* filtered_token.py:442-445
FilteredInsertColumns ==
    {"tx_hash", "block_number", "timestamp", "user_address", "token_in_address",
     "token_in_symbol", "token_out_address", "token_out_symbol", "amount_in",
     "amount_out", "trade_type", "usd_value", "gas_used", "contract_used",
     "is_target_token_in", "is_target_token_out"}

\* filtered_token.py:229-233
FilteredIndexColumns ==
    {"block_number", "token_in_address", "token_out_address", "user_address",
     "is_target_token_in", "is_target_token_out"}

NoTradesTable == [exists |-> FALSE, columns |-> {}, rows |-> <<>>]

\* CREATE TABLE IF NOT EXISTS target_token_trades (columns)
CreateTableIfNotExists(table, columns) ==
    IF table.exists THEN table
    ELSE [exists |-> TRUE, columns |-> columns, rows |-> <<>>]

\* a statement naming `columns` of `table` is accepted
StatementAccepted(table, columns) == table.exists /\ columns \subseteq table.columns

\* INSERT INTO target_token_trades (columns) ... ON CONFLICT (tx_hash) DO NOTHING
InsertTrade(table, columns, tx_hash) ==
    IF ~StatementAccepted(table, columns) THEN "failed"
    ELSE IF \E k \in 1 .. Len(table.rows) : table.rows[k] = tx_hash THEN "conflict"
    ELSE "saved"

SCIdle ==
    /\ sc_trades = NoTradesTable
    /\ sc_progress = FALSE
    /\ sc_first = "none"
    /\ sc_setup = [s \in ScScripts |-> "none"]
    /\ sc_insert = [s \in ScScripts |-> "none"]

SCInit == SCIdle

\* multi.py:331-371 setup_tables, called by SimpleMultiScanner.__init__ (line 287)
SCMultiSetup ==
    /\ sc_trades' = CreateTableIfNotExists(sc_trades, MultiColumns)
    /\ sc_first' = IF sc_trades.exists THEN sc_first ELSE "multi"
    /\ sc_setup' = [sc_setup EXCEPT !["multi"] = "ok"]
    /\ UNCHANGED <<sc_progress, sc_insert, otherThanSC>>

\* filtered_token.py:179-245 setup_output_tables, called by
\* AutoPostgresScanner.__init__ (line 96); one transaction, rolled back and
\* re-raised when a statement fails
SCFilteredSetup ==
    LET created == CreateTableIfNotExists(sc_trades, FilteredColumns)
    IN  IF StatementAccepted(created, FilteredIndexColumns)
        THEN /\ sc_trades' = created
             /\ sc_first' = IF sc_trades.exists THEN sc_first ELSE "filtered"
             /\ sc_progress' = TRUE
             /\ sc_setup' = [sc_setup EXCEPT !["filtered"] = "ok"]
             /\ UNCHANGED <<sc_insert, otherThanSC>>
        ELSE /\ sc_setup' = [sc_setup EXCEPT !["filtered"] = "failed"]
             /\ UNCHANGED <<sc_trades, sc_first, sc_progress, sc_insert, otherThanSC>>

\* multi.py:165-205 save_simple_trade of a worker the scanner started
SCMultiInsert ==
    /\ sc_setup["multi"] = "ok"
    /\ \E tx_hash \in 1 .. MaxScTx :
          LET outcome == InsertTrade(sc_trades, MultiInsertColumns, tx_hash)
          IN  /\ sc_insert' = [sc_insert EXCEPT !["multi"] = outcome]
              /\ sc_trades' = IF outcome = "saved"
                              THEN [sc_trades EXCEPT !.rows = Append(@, tx_hash)]
                              ELSE sc_trades
    /\ UNCHANGED <<sc_progress, sc_first, sc_setup, otherThanSC>>

\* filtered_token.py:435-461 save_trade of a scanner whose __init__ returned
SCFilteredInsert ==
    /\ sc_setup["filtered"] = "ok"
    /\ \E tx_hash \in 1 .. MaxScTx :
          LET outcome == InsertTrade(sc_trades, FilteredInsertColumns, tx_hash)
          IN  /\ sc_insert' = [sc_insert EXCEPT !["filtered"] = outcome]
              /\ sc_trades' = IF outcome = "saved"
                              THEN [sc_trades EXCEPT !.rows = Append(@, tx_hash)]
                              ELSE sc_trades
    /\ UNCHANGED <<sc_progress, sc_first, sc_setup, otherThanSC>>

NextSchema ==
    \/ SCMultiSetup
    \/ SCFilteredSetup
    \/ SCMultiInsert
    \/ SCFilteredInsert

(***************************************************************************)
(* filtered_token.py: AutoPostgresScanner.track_rpc_request and the reset  *)
(* at the end of a batch of scan_for_target_tokens                         *)
(***************************************************************************)
\* filtered_token.py:38 RPC_RATE_LIMIT = 1800, scaled
RPC_RATE_LIMIT == 3

\* filtered_token.py:118 the 60 seconds of the rate window, scaled
RATE_WINDOW == 3

\* last second the model follows
MaxTime == 6

\* most requests the model follows
MaxRlRequests == 6

RlSeconds == 0 .. MaxTime

RECURSIVE RlSum(_, _, _)
RlSum(f, from, to) == IF from > to THEN 0 ELSE f[from] + RlSum(f, from + 1, to)

\* lines 117-121: the second at which time.sleep returns
RlAfterSleep(now, batch_start_time) ==
    LET elapsed == now - batch_start_time
    IN  IF elapsed < RATE_WINDOW THEN now + (RATE_WINDOW - elapsed + 1) ELSE now

RLIdle ==
    /\ rl_now = 0
    /\ rl_request_count = 0
    /\ rl_batch_start_time = 0
    /\ rl_issued = [t \in RlSeconds |-> 0]

\* lines 70-71: __init__
RLInit == RLIdle

\* time passes between two calls
RLTick ==
    /\ rl_now < MaxTime
    /\ rl_now' = rl_now + 1
    /\ UNCHANGED <<rl_request_count, rl_batch_start_time, rl_issued, otherThanRL>>

\* lines 111-125 and the RPC call that follows track_rpc_request
\* (get_block_with_rate_limit and the other *_with_rate_limit methods)
RLTrackAndRequest ==
    /\ RlSum(rl_issued, 0, MaxTime) < MaxRlRequests
    /\ LET count == rl_request_count + 1
           at == IF count >= RPC_RATE_LIMIT
                 THEN RlAfterSleep(rl_now, rl_batch_start_time)
                 ELSE rl_now
       IN  /\ at <= MaxTime
           /\ rl_now' = at
           /\ rl_request_count' = IF count >= RPC_RATE_LIMIT THEN 0 ELSE count
           /\ rl_batch_start_time' = IF count >= RPC_RATE_LIMIT THEN at
                                     ELSE rl_batch_start_time
           /\ rl_issued' = [rl_issued EXCEPT ![at] = @ + 1]
    /\ UNCHANGED otherThanRL

\* lines 542-550: time.sleep(1) after a batch, the counter reset when the
\* window is 60 seconds old
RLBatchEnd ==
    /\ rl_now < MaxTime
    /\ rl_now' = rl_now + 1
    /\ IF rl_now' - rl_batch_start_time >= RATE_WINDOW
       THEN /\ rl_request_count' = 0
            /\ rl_batch_start_time' = rl_now'
       ELSE UNCHANGED <<rl_request_count, rl_batch_start_time>>
    /\ UNCHANGED <<rl_issued, otherThanRL>>

NextRateLimit ==
    \/ RLTick
    \/ RLTrackAndRequest
    \/ RLBatchEnd

(***************************************************************************)
(* scripts/paraswap_backfill.py: SmartParaswapWorker.process_block_batch   *)
(* and the collection of its result by run_parallel_backfill               *)
(***************************************************************************)
\* highest block of a worker's range
MaxBfBlock == 2

BfBlocks == 1 .. MaxBfBlock

BfNoLog == [event |-> "none", src_token |-> "none", dest_token |-> "none"]

\* the Paraswap event of a block: Swapped, Bought or Sold between an Arena
\* target token and WAVAX
BfLogs ==
    {BfNoLog} \cup [event : {"Swapped", "Bought", "Sold"},
                    src_token : {"arena", "wavax"},
                    dest_token : {"arena", "wavax"}]

\* lines 156-165: is_arena_token
is_arena_token(token_address) == token_address = "arena"

\* lines 167-225: process_paraswap_event, <<>> for None; the hash of the
\* transaction of block b is b
process_paraswap_event(log, block_number) ==
    IF log.event \in {"Swapped", "Bought", "Sold"}
    THEN <<[tx_hash |-> block_number, block_number |-> block_number,
            src_token |-> "", dest_token |-> "",
            trade_type |-> CASE log.event = "Swapped" -> "SWAPPED"
                             [] log.event = "Bought" -> "BOUGHT"
                             [] OTHER -> "SOLD",
            is_arena_involved |-> FALSE]>>
    ELSE <<>>

\* lines 253-257: the trades of one log that are appended
BfAppended(events) ==
    IF events # <<>> /\ events[1].is_arena_involved THEN events ELSE <<>>

BFIdle ==
    /\ bf_chain = [b \in BfBlocks |-> BfNoLog]
    /\ bf_start = 1
    /\ bf_end = 0
    /\ bf_pc = "idle"
    /\ bf_block = 0
    /\ bf_events = <<>>
    /\ bf_trades = <<>>
    /\ bf_failed = {}
    /\ bf_saved = <<>>

\* executor.submit(worker.process_block_batch, range_start, range_end)
BFInit ==
    /\ bf_chain \in [BfBlocks -> BfLogs]
    /\ bf_start \in BfBlocks
    /\ bf_end \in bf_start .. MaxBfBlock
    /\ bf_pc = "scan"
    /\ bf_block = bf_start
    /\ bf_events = <<>>
    /\ bf_trades = <<>>
    /\ bf_failed = {}
    /\ bf_saved = <<>>

\* lines 233-266: one block whose get_block and get_logs succeed
BFProcessBlock ==
    /\ bf_pc = "scan"
    /\ bf_block <= bf_end
    /\ LET events == process_paraswap_event(bf_chain[bf_block], bf_block)
       IN  /\ bf_events' = bf_events \o events
           /\ bf_trades' = bf_trades \o BfAppended(events)
    /\ bf_block' = bf_block + 1
    /\ UNCHANGED <<bf_chain, bf_start, bf_end, bf_pc, bf_failed, bf_saved, otherThanBF>>

\* lines 259-261, 270-272: get_block or get_logs raises, the block is skipped
BFProcessBlockError ==
    /\ bf_pc = "scan"
    /\ bf_block <= bf_end
    /\ bf_failed' = bf_failed \cup {bf_block}
    /\ bf_block' = bf_block + 1
    /\ UNCHANGED <<bf_chain, bf_start, bf_end, bf_pc, bf_events, bf_trades, bf_saved,
                   otherThanBF>>

\* lines 464-467: trades = future.result(); worker.save_trades_batch(trades)
BFCollect ==
    /\ bf_pc = "scan"
    /\ bf_block > bf_end
    /\ bf_saved' = bf_trades
    /\ bf_pc' = "done"
    /\ UNCHANGED <<bf_chain, bf_start, bf_end, bf_block, bf_events, bf_trades,
                   bf_failed, otherThanBF>>

NextBackfill ==
    \/ BFProcessBlock
    \/ BFProcessBlockError
    \/ BFCollect

(***************************************************************************)
(* bonding_tracker.py: BondingTracker.scan_pair_events and                 *)
(* update_bonding_status on token_deployments                              *)
(***************************************************************************)
\* operations of the tracker the model follows
MaxBtOps == 3

\* highest block of a PairCreated event
MaxBtBlock == 2

BtTokens == {"t1", "t2"}

\* NULL of a text column
NULL == "NULL"

\* NULL of bonded_at and bonded_block_number (blocks are numbered from 1)
NULL_BLOCK == 0

\* a row of a token not bonded; `recent` is timestamp >= NOW() - hours_back
BtNewRow ==
    [lp_deployed |-> FALSE, pair_address |-> NULL, bonded_at |-> NULL_BLOCK,
     bonded_block_number |-> NULL_BLOCK, bonding_error |-> NULL, recent |-> TRUE]

BtNoOp == [op |-> "none", n |-> 0, seen |-> {}, info |-> <<>>]

\* lines 143-146 with every row selected
ScanSelectsAny(row) == TRUE

\* lines 143-146: SELECT ... WHERE token_address = %s AND lp_deployed = FALSE
ScanSelects(row) == row.lp_deployed = FALSE

\* lines 155-160, 241-247: UPDATE ... SET lp_deployed = TRUE, ...
BtMarkBonded(row, pair_address, bonded_at, block_number) ==
    [row EXCEPT !.lp_deployed = TRUE, !.pair_address = pair_address,
                !.bonded_at = bonded_at, !.bonded_block_number = block_number,
                !.bonding_error = NULL]

\* lines 221-228 without `AND bonding_error IS NULL`
UpdateSelectsErrored(row) == row.lp_deployed = FALSE /\ row.recent

\* lines 221-228: the rows update_bonding_status selects
UpdateSelects(row) ==
    row.lp_deployed = FALSE /\ row.bonding_error = NULL /\ row.recent

\* lines 179-212: the values _check_bonding can return for a token
check_bonding(compatible, pair) ==
    {[is_bonded |-> FALSE, pair_address |-> NULL, timestamp |-> NULL_BLOCK,
      block_number |-> NULL_BLOCK, error |-> "Check failed"]}
    \cup
    (IF ~compatible
     THEN {[is_bonded |-> FALSE, pair_address |-> NULL, timestamp |-> NULL_BLOCK,
            block_number |-> NULL_BLOCK, error |-> "Token not compatible"]}
     ELSE IF pair = 0
     THEN {[is_bonded |-> FALSE, pair_address |-> NULL, timestamp |-> NULL_BLOCK,
            block_number |-> NULL_BLOCK, error |-> NULL]}
     ELSE {[is_bonded |-> TRUE, pair_address |-> "pair", timestamp |-> pair,
            block_number |-> pair, error |-> NULL],
           [is_bonded |-> TRUE, pair_address |-> "pair", timestamp |-> NULL_BLOCK,
            block_number |-> NULL_BLOCK, error |-> "Could not determine bonding time"]})

\* lines 240-253: the row after the UPDATE that follows _check_bonding
BtAfterCheck(row, info) ==
    IF info.is_bonded
    THEN BtMarkBonded(row, info.pair_address, info.timestamp, info.block_number)
    ELSE [row EXCEPT !.bonding_error = info.error]

BtCheckErrors == {"Token not compatible", "Check failed"}

BTIdle ==
    /\ bt_rows = [t \in BtTokens |-> BtNewRow]
    /\ bt_pair = [t \in BtTokens |-> 0]
    /\ bt_compatible = [t \in BtTokens |-> TRUE]
    /\ bt_last = BtNoOp
    /\ bt_errored = {}
    /\ bt_notbonded = {}

\* token_deployments holds the tokens, none bonded; BondingTracker.__init__
BTInit ==
    /\ bt_rows = [t \in BtTokens |-> BtNewRow]
    /\ bt_pair = [t \in BtTokens |-> 0]
    /\ bt_compatible \in [BtTokens -> BOOLEAN]
    /\ bt_last = BtNoOp
    /\ bt_errored = {}
    /\ bt_notbonded = {}

\* the chain: the factory creates the WAVAX pair of a token
BTPairCreated ==
    /\ \E t \in BtTokens, b \in 1 .. MaxBtBlock :
          /\ bt_pair[t] = 0
          /\ bt_pair' = [bt_pair EXCEPT ![t] = b]
    /\ UNCHANGED <<bt_rows, bt_compatible, bt_last, bt_errored, bt_notbonded,
                   otherThanBT>>

\* time: a token's deployment becomes older than hours_back
BTAge ==
    /\ \E t \in BtTokens :
          /\ bt_rows[t].recent
          /\ bt_rows' = [bt_rows EXCEPT ![t].recent = FALSE]
    /\ UNCHANGED <<bt_pair, bt_compatible, bt_last, bt_errored, bt_notbonded,
                   otherThanBT>>

\* lines 107-177: scan_pair_events; `seen` are the tokens whose PairCreated
\* event lies in the last blocks_back blocks
BTScanPairEvents ==
    /\ bt_last.n < MaxBtOps
    /\ \E seen \in SUBSET {t \in BtTokens : bt_pair[t] # 0} :
          /\ bt_rows' = [t \in BtTokens |->
                            IF t \in seen /\ ScanSelects(bt_rows[t])
                            THEN BtMarkBonded(bt_rows[t], "pair", bt_pair[t],
                                              bt_pair[t])
                            ELSE bt_rows[t]]
          /\ bt_last' = [op |-> "scan", n |-> bt_last.n + 1, seen |-> seen,
                         info |-> <<>>]
    /\ UNCHANGED <<bt_pair, bt_compatible, bt_errored, bt_notbonded, otherThanBT>>

\* lines 107-177: scan_pair_events when get_logs or the database raises:
\* rolled back, nothing committed
BTScanPairEventsError ==
    /\ bt_last.n < MaxBtOps
    /\ bt_last' = [op |-> "scan", n |-> bt_last.n + 1, seen |-> {}, info |-> <<>>]
    /\ UNCHANGED <<bt_rows, bt_pair, bt_compatible, bt_errored, bt_notbonded,
                   otherThanBT>>

\* lines 214-264: update_bonding_status
BTUpdateBondingStatus ==
    /\ bt_last.n < MaxBtOps
    /\ LET tokens == {t \in BtTokens : UpdateSelects(bt_rows[t])}
       IN  \E info \in [tokens -> UNION {check_bonding(c, b) :
                                            c \in BOOLEAN, b \in 0 .. MaxBtBlock}] :
              /\ \A t \in tokens : info[t] \in check_bonding(bt_compatible[t], bt_pair[t])
              /\ bt_rows' = [t \in BtTokens |->
                                IF t \in tokens THEN BtAfterCheck(bt_rows[t], info[t])
                                ELSE bt_rows[t]]
              /\ bt_last' = [op |-> "update", n |-> bt_last.n + 1, seen |-> tokens,
                             info |-> info]
              /\ bt_errored' = bt_errored
                                  \cup {t \in tokens : info[t].error \in BtCheckErrors}
              /\ bt_notbonded' = {t \in tokens :
                                     ~info[t].is_bonded /\ info[t].error = NULL}
    /\ UNCHANGED <<bt_pair, bt_compatible, otherThanBT>>

NextBonding ==
    \/ BTPairCreated
    \/ BTAge
    \/ BTScanPairEvents
    \/ BTScanPairEventsError
    \/ BTUpdateBondingStatus

(***************************************************************************)
(* arena_scraper.py: ArenaScraper.run                                      *)
(***************************************************************************)
\* largest --limit
MaxLimit == 3

\* largest --batch-size
MaxBatchSize == 3

\* most users the API holds
MaxApiUsers == 4

ASIdle ==
    /\ as_limit = 1
    /\ as_batch_size = 1
    /\ as_available = 0
    /\ as_continuous = FALSE
    /\ as_pc = "idle"
    /\ as_offset = 0
    /\ as_total = 0
    /\ as_passed = 0

\* run(limit, continuous) entered, offset = 0, total_processed = 0
ASInit ==
    /\ as_limit \in 1 .. MaxLimit
    /\ as_batch_size \in 1 .. MaxBatchSize
    /\ as_available \in 0 .. MaxApiUsers
    /\ as_continuous \in BOOLEAN
    /\ as_pc = "loop"
    /\ as_offset = 0
    /\ as_total = 0
    /\ as_passed = 0

\* arena_scraper.py:156-171 the number of users the API returns for
\* limit = batch_size at `offset`
fetch_users(available, batch_size, offset) ==
    IF offset >= available THEN 0 ELSE Min(batch_size, available - offset)

\* lines 334-365: one iteration of `while True` whose fetch succeeds
ASIteration ==
    /\ as_pc = "loop"
    /\ LET users == fetch_users(as_available, as_batch_size, as_offset)
       IN  IF users = 0
           THEN /\ as_pc' = "done"
                /\ UNCHANGED <<as_offset, as_total, as_passed>>
           ELSE /\ as_passed' = as_passed + users
                /\ as_total' = as_total + users
                /\ IF as_total' >= as_limit
                   THEN as_pc' = "done" /\ as_offset' = as_offset
                   ELSE IF ~as_continuous /\ users < as_batch_size
                   THEN as_pc' = "done" /\ as_offset' = as_offset
                   ELSE as_pc' = "loop" /\ as_offset' = as_offset + as_batch_size
    /\ UNCHANGED <<as_limit, as_batch_size, as_available, as_continuous, otherThanAS>>

\* lines 367-373: fetch_users raises, run logs the error and ends
ASFetchError ==
    /\ as_pc = "loop"
    /\ as_pc' = "failed"
    /\ UNCHANGED <<as_limit, as_batch_size, as_available, as_continuous, as_offset,
                   as_total, as_passed, otherThanAS>>

NextScraper ==
    \/ ASIteration
    \/ ASFetchError

(***************************************************************************)
(* sync_subgraph_to_db.py: sync_historical_token_deployments and           *)
(* sync_historical_bonding_events                                          *)
(***************************************************************************)
\* most records the subgraph holds
MaxRecords == 4

\* largest deployedAt / timestamp
MaxTimestamp == 3

\* sync_subgraph_to_db.py:13 BATCH_SIZE = 1000, scaled
SYNC_BATCH_SIZE == 2

\* the subgraph's records by their timestamps, in ascending order
SyRecordLists ==
    {r \in SeqsUpTo(1 .. MaxTimestamp, MaxRecords) :
        \A i \in 1 .. Len(r) - 1 : r[i] <= r[i + 1]}

\* lines 855-872, 982-1010: the query (first: BATCH_SIZE, where: {deployedAt_gt:
\* last_timestamp}, orderBy: deployedAt, orderDirection: asc), as the indices
\* of the records it returns
SyQuery(records, last_timestamp) ==
    LET match == {i \in 1 .. Len(records) : records[i] > last_timestamp}
    IN  {i \in match : Cardinality({j \in match : j < i}) < SYNC_BATCH_SIZE}

SyMax(S) == CHOOSE m \in S : \A x \in S : x <= m

SYIdle ==
    /\ sy_kind = "none"
    /\ sy_records = <<>>
    /\ sy_last_timestamp = 0
    /\ sy_fetched = {}
    /\ sy_pc = "idle"

\* lines 850-851, 978-979: total_synced = 0, last_timestamp = 0
SYInit ==
    /\ sy_kind \in {"tokenDeployments", "bondingEvents"}
    /\ sy_records \in SyRecordLists
    /\ sy_last_timestamp = 0
    /\ sy_fetched = {}
    /\ sy_pc = "loop"

\* lines 853-955 (979-1081): one iteration of `while True` of
\* sync_historical_token_deployments whose request succeeds
SYFetchTokens ==
    /\ sy_kind = "tokenDeployments"
    /\ sy_pc = "loop"
    /\ LET tokens == SyQuery(sy_records, sy_last_timestamp)
       IN  IF tokens = {}
           THEN /\ sy_pc' = "done"
                /\ UNCHANGED <<sy_last_timestamp, sy_fetched>>
           ELSE /\ sy_fetched' = sy_fetched \cup tokens
                /\ sy_last_timestamp' = SyMax({sy_records[i] : i \in tokens})
                /\ sy_pc' = "loop"
    /\ UNCHANGED <<sy_kind, sy_records, otherThanSY>>

\* lines 981-1081: one iteration of `while True` of
\* sync_historical_bonding_events whose request succeeds
SYFetchEvents ==
    /\ sy_kind = "bondingEvents"
    /\ sy_pc = "loop"
    /\ LET events == SyQuery(sy_records, sy_last_timestamp)
       IN  IF events = {}
           THEN /\ sy_pc' = "done"
                /\ UNCHANGED <<sy_last_timestamp, sy_fetched>>
           ELSE /\ sy_fetched' = sy_fetched \cup events
                /\ sy_last_timestamp' = SyMax({sy_records[i] : i \in events})
                /\ sy_pc' = "loop"
    /\ UNCHANGED <<sy_kind, sy_records, otherThanSY>>

\* lines 879-881, 958-964: GraphQL errors or a failed request end the loop
SYFetchError ==
    /\ sy_pc = "loop"
    /\ sy_pc' = "failed"
    /\ UNCHANGED <<sy_kind, sy_records, sy_last_timestamp, sy_fetched, otherThanSY>>

NextSync ==
    \/ SYFetchTokens
    \/ SYFetchEvents
    \/ SYFetchError

(***************************************************************************)
(* scripts/analysis/manual_pnl_calculator.py: FIFOPortfolioTracker         *)
(***************************************************************************)
\* largest quantity of one buy or sell
MaxQuantity == 2

\* largest price per token
MaxPrice == 2

\* number of buy and sell calls followed
MaxOps == 5

\* lines 25-33: the default position
NewPosition ==
    [holdings |-> <<>>, total_quantity |-> 0, realized_pnl |-> 0,
     total_bought |-> 0, total_sold |-> 0, total_cost |-> 0, total_revenue |-> 0]

\* the tokens traded; pf_position is self.positions of the first
PfTokens == {"tokenA", "tokenB"}

NoSell ==
    [token |-> "tokenA", call |-> 0, quantity |-> 0, price |-> 0, pnl |-> 0,
     before |-> NewPosition]

\* lines 35-41
buy(position, quantity, price_per_token) ==
    [position EXCEPT
        !.holdings = Append(@, <<quantity, price_per_token>>),
        !.total_quantity = @ + quantity,
        !.total_bought = @ + quantity,
        !.total_cost = @ + quantity * price_per_token]

\* lines 56-68 consuming the newest lot first
RECURSIVE ConsumeLotsNewestFirst(_, _, _)
ConsumeLotsNewestFirst(holdings, remaining_to_sell, total_cost_basis) ==
    IF remaining_to_sell > 0 /\ holdings # <<>>
    THEN LET n == Len(holdings)
             held_quantity == holdings[n][1]
             held_price == holdings[n][2]
         IN  IF held_quantity <= remaining_to_sell
             THEN ConsumeLotsNewestFirst(SubSeq(holdings, 1, n - 1),
                                         remaining_to_sell - held_quantity,
                                         total_cost_basis + held_quantity * held_price)
             ELSE ConsumeLotsNewestFirst(
                      [holdings EXCEPT ![n] = <<held_quantity - remaining_to_sell,
                                                held_price>>],
                      0, total_cost_basis + remaining_to_sell * held_price)
    ELSE [holdings |-> holdings, total_cost_basis |-> total_cost_basis]

\* lines 56-68 with a lot that equals remaining_to_sell sold as a part
RECURSIVE ConsumeLotsKeepEmpty(_, _, _)
ConsumeLotsKeepEmpty(holdings, remaining_to_sell, total_cost_basis) ==
    IF remaining_to_sell > 0 /\ holdings # <<>>
    THEN LET held_quantity == holdings[1][1]
             held_price == holdings[1][2]
         IN  IF held_quantity < remaining_to_sell
             THEN ConsumeLotsKeepEmpty(Tail(holdings), remaining_to_sell - held_quantity,
                                       total_cost_basis + held_quantity * held_price)
             ELSE ConsumeLotsKeepEmpty(
                      [holdings EXCEPT ![1] = <<held_quantity - remaining_to_sell,
                                                held_price>>],
                      0, total_cost_basis + remaining_to_sell * held_price)
    ELSE [holdings |-> holdings, total_cost_basis |-> total_cost_basis]

\* lines 56-68: the while loop over position['holdings']
RECURSIVE ConsumeLots(_, _, _)
ConsumeLots(holdings, remaining_to_sell, total_cost_basis) ==
    IF remaining_to_sell > 0 /\ holdings # <<>>
    THEN LET held_quantity == holdings[1][1]
             held_price == holdings[1][2]
         IN  IF held_quantity <= remaining_to_sell
             THEN ConsumeLots(Tail(holdings), remaining_to_sell - held_quantity,
                              total_cost_basis + held_quantity * held_price)
             ELSE ConsumeLots(
                      [holdings EXCEPT ![1] = <<held_quantity - remaining_to_sell,
                                                held_price>>],
                      0, total_cost_basis + remaining_to_sell * held_price)
    ELSE [holdings |-> holdings, total_cost_basis |-> total_cost_basis]

\* lines 43-80 without the test of lines 47-50
sellUnchecked(position, quantity, price_per_token) ==
    LET c == ConsumeLots(position.holdings, quantity, 0)
        revenue == quantity * price_per_token
        trade_pnl == revenue - c.total_cost_basis
    IN  [position |-> [position EXCEPT
                          !.holdings = c.holdings,
                          !.total_quantity = @ - quantity,
                          !.total_sold = @ + quantity,
                          !.realized_pnl = @ + trade_pnl,
                          !.total_revenue = @ + revenue],
         trade_pnl |-> trade_pnl]

\* lines 43-80: the position after the call and the value returned
sell(position, quantity, price_per_token) ==
    IF position.total_quantity < quantity
    THEN [position |-> position, trade_pnl |-> 0]
    ELSE LET c == ConsumeLots(position.holdings, quantity, 0)
             revenue == quantity * price_per_token
             trade_pnl == revenue - c.total_cost_basis
         IN  [position |-> [position EXCEPT
                               !.holdings = c.holdings,
                               !.total_quantity = @ - quantity,
                               !.total_sold = @ + quantity,
                               !.realized_pnl = @ + trade_pnl,
                               !.total_revenue = @ + revenue],
              trade_pnl |-> trade_pnl]

PFIdle ==
    /\ pf_position = NewPosition
    /\ pf_other = NewPosition
    /\ pf_last = NoSell
    /\ pf_ops = 0

PFInit == PFIdle

\* tracker.buy(token_address, quantity, price_per_token)
PFBuy ==
    /\ pf_ops < MaxOps
    /\ \E token \in PfTokens, quantity \in 1 .. MaxQuantity, price \in 1 .. MaxPrice :
          IF token = "tokenA"
          THEN /\ pf_position' = buy(pf_position, quantity, price)
               /\ UNCHANGED pf_other
          ELSE /\ pf_other' = buy(pf_other, quantity, price)
               /\ UNCHANGED pf_position
    /\ pf_ops' = pf_ops + 1
    /\ UNCHANGED <<pf_last, otherThanPF>>

\* tracker.sell(token_address, quantity, price_per_token)
PFSell ==
    /\ pf_ops < MaxOps
    /\ pf_ops' = pf_ops + 1
    /\ \E token \in PfTokens, quantity \in 1 .. MaxQuantity, price \in 1 .. MaxPrice :
          LET position == IF token = "tokenA" THEN pf_position ELSE pf_other
              r == sell(position, quantity, price)
          IN  /\ IF token = "tokenA"
                 THEN /\ pf_position' = r.position
                      /\ UNCHANGED pf_other
                 ELSE /\ pf_other' = r.position
                      /\ UNCHANGED pf_position
              /\ pf_last' = [token |-> token, call |-> pf_ops', quantity |-> quantity,
                             price |-> price, pnl |-> r.trade_pnl, before |-> position]
    /\ UNCHANGED otherThanPF

NextPortfolio ==
    \/ PFBuy
    \/ PFSell

(***************************************************************************)
(* Specifications: one per script, the other scripts at rest.              *)
(***************************************************************************)
InitFT == FTInit /\ FLIdle /\ SVIdle /\ MUIdle /\ PTIdle /\ PSIdle /\ UPIdle /\ CLIdle /\ TDIdle /\ CKIdle /\ HSIdle /\ CRIdle /\ CHIdle /\ ASIdle /\ SYIdle /\ PFIdle /\ SCIdle /\ RLIdle /\ BFIdle /\ BTIdle

SpecFT == InitFT /\ [][NextFT]_vars

InitFilter == FLInit /\ FTIdle /\ SVIdle /\ MUIdle /\ PTIdle /\ PSIdle /\ UPIdle /\ CLIdle /\ TDIdle /\ CKIdle /\ HSIdle /\ CRIdle /\ CHIdle /\ ASIdle /\ SYIdle /\ PFIdle /\ SCIdle /\ RLIdle /\ BFIdle /\ BTIdle

SpecFilter == InitFilter /\ [][NextFilter]_vars

InitSave == SVInit /\ ftRest /\ FLIdle /\ MUIdle /\ PTIdle /\ PSIdle /\ UPIdle /\ CLIdle /\ TDIdle /\ CKIdle /\ HSIdle /\ CRIdle /\ CHIdle /\ ASIdle /\ SYIdle /\ PFIdle /\ SCIdle /\ RLIdle /\ BFIdle /\ BTIdle

SpecSave == InitSave /\ [][NextSave]_vars

InitMulti == MUInit /\ ftRest /\ FLIdle /\ SVIdle /\ PTIdle /\ PSIdle /\ UPIdle /\ CLIdle /\ TDIdle /\ CKIdle /\ HSIdle /\ CRIdle /\ CHIdle /\ ASIdle /\ SYIdle /\ PFIdle /\ SCIdle /\ RLIdle /\ BFIdle /\ BTIdle

SpecMulti == InitMulti /\ [][NextMulti]_vars

InitPartition == PTInit /\ FTIdle /\ FLIdle /\ SVIdle /\ MUIdle /\ PSIdle /\ UPIdle /\ CLIdle /\ TDIdle /\ CKIdle /\ HSIdle /\ CRIdle /\ CHIdle /\ ASIdle /\ SYIdle /\ PFIdle /\ SCIdle /\ RLIdle /\ BFIdle /\ BTIdle

SpecPartition == InitPartition /\ [][NextPartition]_vars

InitPS == PSInit /\ FTIdle /\ FLIdle /\ SVIdle /\ MUIdle /\ PTIdle /\ UPIdle /\ CLIdle /\ TDIdle /\ CKIdle /\ HSIdle /\ CRIdle /\ CHIdle /\ ASIdle /\ SYIdle /\ PFIdle /\ SCIdle /\ RLIdle /\ BFIdle /\ BTIdle

SpecPS == InitPS /\ [][NextPS]_vars

psRest ==
    /\ ps_chain = <<>>
    /\ ps_ckpt = NoCheckpointTable
    /\ psRunRest

InitUpload == UPInit /\ psRest /\ FTIdle /\ FLIdle /\ SVIdle /\ MUIdle /\ PTIdle /\ CLIdle /\ TDIdle /\ CKIdle /\ HSIdle /\ CRIdle /\ CHIdle /\ ASIdle /\ SYIdle /\ PFIdle /\ SCIdle /\ RLIdle /\ BFIdle /\ BTIdle

SpecUpload == InitUpload /\ [][NextUpload]_vars

InitClassify == CLInit /\ FTIdle /\ FLIdle /\ SVIdle /\ MUIdle /\ PTIdle /\ PSIdle /\ UPIdle /\ TDIdle /\ CKIdle /\ HSIdle /\ CRIdle /\ CHIdle /\ ASIdle /\ SYIdle /\ PFIdle /\ SCIdle /\ RLIdle /\ BFIdle /\ BTIdle

SpecClassify == InitClassify /\ [][NextClassify]_vars

InitDeployments == TDInit /\ FTIdle /\ FLIdle /\ SVIdle /\ MUIdle /\ PTIdle /\ PSIdle /\ UPIdle /\ CLIdle /\ CKIdle /\ HSIdle /\ CRIdle /\ CHIdle /\ ASIdle /\ SYIdle /\ PFIdle /\ SCIdle /\ RLIdle /\ BFIdle /\ BTIdle

SpecDeployments == InitDeployments /\ [][NextDeployments]_vars

InitCheckpoint == CKInit /\ FTIdle /\ FLIdle /\ SVIdle /\ MUIdle /\ PTIdle /\ PSIdle /\ UPIdle /\ CLIdle /\ TDIdle /\ HSIdle /\ CRIdle /\ CHIdle /\ ASIdle /\ SYIdle /\ PFIdle /\ SCIdle /\ RLIdle /\ BFIdle /\ BTIdle

SpecCheckpoint == InitCheckpoint /\ [][NextCheckpoint]_vars

InitHistorical == HSInit /\ FTIdle /\ FLIdle /\ SVIdle /\ MUIdle /\ PTIdle /\ PSIdle /\ UPIdle /\ CLIdle /\ TDIdle /\ CKIdle /\ CRIdle /\ CHIdle /\ ASIdle /\ SYIdle /\ PFIdle /\ SCIdle /\ RLIdle /\ BFIdle /\ BTIdle

SpecHistorical == InitHistorical /\ [][NextHistorical]_vars

InitPSCrash == InitPS /\ CHIdle /\ ASIdle /\ SYIdle /\ PFIdle /\ SCIdle /\ RLIdle /\ BFIdle /\ BTIdle

SpecPSCrash == InitPSCrash /\ [][NextPSCrash]_vars

InitScanLoops == CHInit /\ ch_chain = [b \in ChBlocks |-> "none"] /\ FTInit /\ FLIdle /\ SVIdle /\ MUIdle /\ PTIdle /\ PSIdle /\ UPIdle /\ CLIdle /\ TDIdle /\ CKIdle /\ HSIdle /\ CRIdle /\ ASIdle /\ SYIdle /\ PFIdle /\ SCIdle /\ RLIdle /\ BFIdle /\ BTIdle

SpecScanLoops == InitScanLoops /\ [][NextScanLoops]_vars

InitSchema == SCInit /\ FTIdle /\ FLIdle /\ SVIdle /\ MUIdle /\ PTIdle /\ PSIdle /\ UPIdle /\ CLIdle /\ TDIdle /\ CKIdle /\ HSIdle /\ CRIdle /\ CHIdle /\ ASIdle /\ SYIdle /\ PFIdle /\ RLIdle /\ BFIdle /\ BTIdle

SpecSchema == InitSchema /\ [][NextSchema]_vars

InitRateLimit == RLInit /\ FTIdle /\ FLIdle /\ SVIdle /\ MUIdle /\ PTIdle /\ PSIdle /\ UPIdle /\ CLIdle /\ TDIdle /\ CKIdle /\ HSIdle /\ CRIdle /\ CHIdle /\ ASIdle /\ SYIdle /\ PFIdle /\ SCIdle /\ BFIdle /\ BTIdle

SpecRateLimit == InitRateLimit /\ [][NextRateLimit]_vars

InitBackfill == BFInit /\ FTIdle /\ FLIdle /\ SVIdle /\ MUIdle /\ PTIdle /\ PSIdle /\ UPIdle /\ CLIdle /\ TDIdle /\ CKIdle /\ HSIdle /\ CRIdle /\ CHIdle /\ ASIdle /\ SYIdle /\ PFIdle /\ SCIdle /\ RLIdle /\ BTIdle

SpecBackfill == InitBackfill /\ [][NextBackfill]_vars

InitBonding == BTInit /\ FTIdle /\ FLIdle /\ SVIdle /\ MUIdle /\ PTIdle /\ PSIdle /\ UPIdle /\ CLIdle /\ TDIdle /\ CKIdle /\ HSIdle /\ CRIdle /\ CHIdle /\ ASIdle /\ SYIdle /\ PFIdle /\ SCIdle /\ RLIdle /\ BFIdle

SpecBonding == InitBonding /\ [][NextBonding]_vars

InitChunkErrors == CHInit /\ ch_which = "incremental" /\ FTIdle /\ FLIdle /\ SVIdle /\ MUIdle /\ PTIdle /\ PSIdle /\ UPIdle /\ CLIdle /\ TDIdle /\ CKIdle /\ HSIdle /\ CRIdle /\ ASIdle /\ SYIdle /\ PFIdle /\ SCIdle /\ RLIdle /\ BFIdle /\ BTIdle

SpecChunkErrors == InitChunkErrors /\ [][NextChunks]_vars

InitScraper == ASInit /\ FTIdle /\ FLIdle /\ SVIdle /\ MUIdle /\ PTIdle /\ PSIdle /\ UPIdle /\ CLIdle /\ TDIdle /\ CKIdle /\ HSIdle /\ CRIdle /\ CHIdle /\ SYIdle /\ PFIdle /\ SCIdle /\ RLIdle /\ BFIdle /\ BTIdle

SpecScraper == InitScraper /\ [][NextScraper]_vars

InitSync == SYInit /\ FTIdle /\ FLIdle /\ SVIdle /\ MUIdle /\ PTIdle /\ PSIdle /\ UPIdle /\ CLIdle /\ TDIdle /\ CKIdle /\ HSIdle /\ CRIdle /\ CHIdle /\ ASIdle /\ PFIdle /\ SCIdle /\ RLIdle /\ BFIdle /\ BTIdle

SpecSync == InitSync /\ [][NextSync]_vars

InitPortfolio == PFInit /\ FTIdle /\ FLIdle /\ SVIdle /\ MUIdle /\ PTIdle /\ PSIdle /\ UPIdle /\ CLIdle /\ TDIdle /\ CKIdle /\ HSIdle /\ CRIdle /\ CHIdle /\ ASIdle /\ SYIdle /\ SCIdle /\ RLIdle /\ BFIdle /\ BTIdle

SpecPortfolio == InitPortfolio /\ [][NextPortfolio]_vars

\* the interpreter keeps executing the function that was called
SpecScanLoopsFair == SpecScanLoops /\ WF_vars(NextScanLoops)

(***************************************************************************)
(* Claims about filtered_token.py                                          *)
(***************************************************************************)
\* C1: across any sequence of scan_for_target_tokens runs and of batches
\* inside a run, the stored last_scanned_block never decreases.
C1_CheckpointNeverDecreases ==
    [][ft_progress'.last_scanned_block >= ft_progress.last_scanned_block]_vars

\* C2: whenever update_progress(batch_end, ...) is executed, every block of
\* [current_batch_start, batch_end] was fetched and processed without an error.
C2_CheckpointOnlyAfterSuccessfulBatch ==
    [][FTEndBatch => ft_failed = {}]_vars

(***************************************************************************)
(* Claims about target_token_trades                                        *)
(***************************************************************************)
\* C5: saving a trade whose tx_hash is already stored, with save_trade or
\* save_simple_trade, leaves the stored row's values and the table's row
\* count unchanged, whatever the new trade's other fields are.
C5_StoredTradeImmutable ==
    [][(\E r \in target_token_trades : r.tx_hash = sv_last'.tx_hash)
          => /\ \A r \in target_token_trades : r \in target_token_trades'
             /\ Cardinality(target_token_trades') = Cardinality(target_token_trades)
      ]_vars

\* a save of a trade that differs from the stored row of its tx_hash has
\* happened: the stored row is the older one
C5_Witness ==
    /\ sv_last # NoTrade
    /\ sv_last \notin target_token_trades
    /\ \E r \in target_token_trades :
          r.tx_hash = sv_last.tx_hash /\ r.trade_type # sv_last.trade_type

\* no two rows of target_token_trades have the same tx_hash
TxHashUnique ==
    \A r1, r2 \in target_token_trades : r1.tx_hash = r2.tx_hash => r1 = r2

\* no block's transactions are iterated over more than once during a scan
ExaminedAtMostOnce == \A b \in MuBlocks : mu_examined[b] <= 1

\* C6: under every interleaving of the multi.py workers, target_token_trades
\* never holds two rows with the same tx_hash, and every transaction of the
\* scanned range is examined by exactly one worker.
C6_UniqueRowsAndExaminedOnce ==
    /\ TxHashUnique
    /\ ExaminedAtMostOnce
    /\ (mu_pc = "idle" /\ mu_runs > 0 /\ mu_start <= mu_end)
          => \A b \in mu_start .. mu_end : mu_examined[b] = 1

(***************************************************************************)
(* Claims about the static partitioning                                    *)
(***************************************************************************)
PairwiseDisjoint(assign) ==
    \A i, j \in 1 .. Len(assign) :
        i # j => WorkerBlocks(assign[i]) \cap WorkerBlocks(assign[j]) = {}

Covered(assign) == UNION {WorkerBlocks(assign[i]) : i \in 1 .. Len(assign)}

\* C8: for every start_block <= end_block and NUM_THREADS >= 1 the ranges
\* scan_parallel assigns are pairwise disjoint and their union is exactly
\* [start_block, end_block].
C8_ScanParallelPartitions ==
    (pt_algo = "multi" /\ pt_i = pt_n) =>
        /\ PairwiseDisjoint(pt_assign)
        /\ Covered(pt_assign) = pt_start .. pt_end

\* scan_parallel has assigned a range that does not divide evenly among
\* several workers, the remainder going to the last one
C8_Witness ==
    /\ pt_algo = "multi"
    /\ pt_i = pt_n
    /\ pt_n >= 2
    /\ (pt_end - pt_start + 1) % pt_n # 0
    /\ pt_end - pt_start + 1 > pt_n

\* C9: for every start_block <= end_block and NUM_WORKERS >= 1 the ranges
\* run_parallel_backfill assigns are pairwise disjoint and their union is
\* exactly [start_block, end_block].
C9_BackfillPartitions ==
    (pt_algo = "backfill" /\ pt_i = pt_n) =>
        /\ PairwiseDisjoint(pt_assign)
        /\ Covered(pt_assign) = pt_start .. pt_end

(***************************************************************************)
(* Claims about the log filter of paraswap-incremental.py                  *)
(***************************************************************************)
\* the same address, letter case ignored
SameAddress(a, b) ==
    /\ Len(a) = Len(b)
    /\ \A i \in 1 .. Len(a) : LowerChar(a[i]) = LowerChar(b[i])

\* the logs scan_incremental_blocks has to return: for each request that
\* succeeded, in order, the logs of its range that pass the filter
RECURSIVE LogsOfSucceeded(_, _)
LogsOfSucceeded(chain, requests) ==
    IF requests = <<>> THEN <<>>
    ELSE (IF Head(requests)[3] = "ok"
          THEN KeptLogs(LogsOfRange(chain, Head(requests)[1], Head(requests)[2]),
                        PsArenaTokens)
          ELSE <<>>)
            \o LogsOfSucceeded(chain, Tail(requests))

\* C21: when eth_getLogs fails for a chunk of scan_incremental_blocks the scan
\* goes on: at the return every chunk of block_chunks was requested, in order
\* and once each (a failed chunk is not requested a second time), and the
\* returned logs are exactly the matching logs of the chunks that succeeded.
C21_ChunkErrorContinues ==
    (ch_which = "incremental" /\ ch_pc = "done") =>
        /\ Len(ch_requests) = Len(ch_chunks)
        /\ \A k \in 1 .. Len(ch_requests) :
              <<ch_requests[k][1], ch_requests[k][2]>> = ch_chunks[k]
        /\ \A j, k \in 1 .. Len(ch_requests) :
              j # k => <<ch_requests[j][1], ch_requests[j][2]>>
                          # <<ch_requests[k][1], ch_requests[k][2]>>
        /\ ch_logs = LogsOfSucceeded(ch_chain, ch_requests)

\* a scan returned whose first chunk failed with a matching log in it, and
\* whose later chunk succeeded and returned one
C21_Witness ==
    /\ ch_which = "incremental"
    /\ ch_pc = "done"
    /\ Len(ch_requests) >= 2
    /\ ch_requests[1][3] = "error"
    /\ ch_requests[2][3] = "ok"
    /\ ch_chain[ch_requests[1][1]] = "buy"
    /\ ch_logs # <<>>

\* the columns the set-up of script s creates
ScColumnsOf(s) == IF s = "multi" THEN MultiColumns ELSE FilteredColumns

\* C22: target_token_trades keeps the columns of the script whose set-up ran
\* first (a later CREATE TABLE IF NOT EXISTS changes none), and the set-up and
\* the trade inserts of the other script work with those columns: no set-up
\* fails and no insert is rejected.
C22_SecondScriptWorksOnFirstSchema ==
    /\ sc_first # "none" => sc_trades.columns = ScColumnsOf(sc_first)
    /\ \A s \in ScScripts : sc_setup[s] # "failed" /\ sc_insert[s] # "failed"

\* C23: after every track_rpc_request request_count is within
\* 0 .. RPC_RATE_LIMIT - 1, and no more than RPC_RATE_LIMIT requests are
\* issued within any window of 60 seconds (RATE_WINDOW consecutive seconds).
C23_RateLimitKept ==
    /\ rl_request_count \in 0 .. RPC_RATE_LIMIT - 1
    /\ \A t \in RlSeconds :
          RlSum(rl_issued, t, Min(t + RATE_WINDOW - 1, MaxTime)) <= RPC_RATE_LIMIT

\* C26: when the worker's result is collected, every Swapped, Bought or Sold
\* log of a block of its range (fetched without error) whose source or
\* destination token is an Arena target token has a trade with
\* is_arena_involved true among the trades passed to save_trades_batch.
C26_ArenaTradesReturned ==
    bf_pc = "done" =>
        \A b \in (bf_start .. bf_end) \ bf_failed :
            (/\ bf_chain[b].event \in {"Swapped", "Bought", "Sold"}
             /\ (is_arena_token(bf_chain[b].src_token)
                    \/ is_arena_token(bf_chain[b].dest_token)))
            => \E k \in 1 .. Len(bf_saved) :
                  bf_saved[k].tx_hash = b /\ bf_saved[k].is_arena_involved

\* C27: after any sequence of scans, target_scan_progress.target_token_trades
\* equals the number of rows the scans inserted into target_token_trades.
C27_ProgressCountsRows ==
    ft_pc = "idle" =>
        ft_progress.target_token_trades = Cardinality(target_token_trades)

\* C28: under scan_pair_events and update_bonding_status a token's
\* lp_deployed never goes from TRUE to FALSE, and once it is TRUE the token's
\* pair_address, bonded_at and bonded_block_number keep their values.
C28_BondedIsFinal ==
    [][\A t \in BtTokens :
          bt_rows[t].lp_deployed =>
             /\ bt_rows'[t].lp_deployed
             /\ bt_rows'[t].pair_address = bt_rows[t].pair_address
             /\ bt_rows'[t].bonded_at = bt_rows[t].bonded_at
             /\ bt_rows'[t].bonded_block_number = bt_rows[t].bonded_block_number]_vars

\* scan_pair_events has just seen the PairCreated event of a token that
\* update_bonding_status had marked bonded without a bonding time
C28_Witness ==
    /\ bt_last.op = "scan"
    /\ \E t \in bt_last.seen :
          /\ bt_rows[t].lp_deployed
          /\ bt_rows[t].pair_address = "pair"
          /\ bt_rows[t].bonded_block_number = NULL_BLOCK
          /\ bt_pair[t] # 0

C10_FilterKeepsExactly ==
    fl_kept # "none" =>
        (fl_kept = "kept" <=>
            /\ Len(fl_log.topics) >= 3
            /\ \E t \in fl_tokens : SameAddress(fl_log.address, t)
            /\ \/ SameAddress(fl_from, RouterDigits)
               \/ SameAddress(fl_to, RouterDigits))

\* C3: uploading the same list of user transactions twice leaves the table
\* with the rows it held after the first upload, each present once.
C3_ReuploadAddsNoRow ==
    up_calls = 2 => ps_users = up_first

\* C4: a run that follows a completed run whose final checkpoint was saved at
\* block L, and that read the database without error, starts at L + 1 and
\* requests no block at or below L.
C4_ResumesAfterCheckpoint ==
    (ps_pc # "idle" /\ ps_resumed /\ ps_prev.saved) =>
        /\ ps_start = ps_prev.latest + 1
        /\ \A k \in 1 .. Len(ps_requests) : ps_requests[k][1] > ps_prev.latest

\* the blocks of the k-th eth_getLogs request of the run
RequestBlocks(k) == ps_requests[k][1] .. ps_requests[k][2]

\* C7: the eth_getLogs requests of one scan span at most BLOCK_CHUNK_SIZE
\* blocks each, no block is requested twice, and together they cover
\* start_block .. end_block.
C7_ChunksTileTheRange ==
    (ps_pc = "scan" /\ ps_i = Len(ps_chunks)) =>
        /\ \A k \in 1 .. Len(ps_requests) :
              Cardinality(RequestBlocks(k)) <= BLOCK_CHUNK_SIZE
        /\ \A k, l \in 1 .. Len(ps_requests) :
              k # l => RequestBlocks(k) \cap RequestBlocks(l) = {}
        /\ UNION {RequestBlocks(k) : k \in 1 .. Len(ps_requests)}
              = ps_start .. ps_latest

\* C11: of the records process_transactions_and_get_users returns for a log,
\* one whose sender is the router is labelled BUY with the recipient as
\* counterparty, one whose recipient but not sender is the router is labelled
\* SELL with the sender as counterparty; a log with the router on neither
\* side yields no record, a log with the router on a side whose transaction
\* was fetched yields one; every label is BUY or SELL.
C11_ClassifiedByRouterSide ==
    cl_pc = "done" =>
        /\ \A k \in 1 .. Len(cl_recs) :
              /\ cl_recs[k].label \in {"BUY", "SELL"}
              /\ SameAddress(cl_from, RouterDigits) =>
                    /\ cl_recs[k].label = "BUY"
                    /\ cl_recs[k].counterparty = lower(HexPrefix \o cl_to)
              /\ (SameAddress(cl_to, RouterDigits)
                    /\ ~SameAddress(cl_from, RouterDigits)) =>
                    /\ cl_recs[k].label = "SELL"
                    /\ cl_recs[k].counterparty = lower(HexPrefix \o cl_from)
        /\ (~SameAddress(cl_from, RouterDigits) /\ ~SameAddress(cl_to, RouterDigits))
              => cl_recs = <<>>
        /\ (cl_outcome = "ok" /\ Len(cl_log.topics) >= 3
              /\ (SameAddress(cl_from, RouterDigits) \/ SameAddress(cl_to, RouterDigits)))
              => Len(cl_recs) = 1

\* a BUY record of a transfer from the router to the router, addresses in
\* mixed case
C11_Witness ==
    /\ cl_pc = "done"
    /\ Len(cl_recs) = 1
    /\ cl_recs[1].label = "BUY"
    /\ SameAddress(cl_to, RouterDigits)
    /\ cl_from # lower(cl_from)

\* C12: when a run has finished and recorded its final checkpoint at
\* latest_block, every log that passed the filter has a stored row with its
\* transaction hash whose real_user is the sender of that transaction.
C12_NoMatchingLogDropped ==
    (ps_pc = "idle" /\ ps_prev.saved /\ ps_prev.latest = ps_latest) =>
        \A k \in 1 .. Len(ps_logs) :
            \E r \in 1 .. Len(ps_users) :
                /\ ps_users[r].tx_hash = ps_logs[k].transactionHash
                /\ ps_users[r].real_user = lower(PsTxFrom(ps_logs[k].transactionHash))

\* C13: no operation removes an existing row of token_deployments: a token
\* that has a row before a step has a row after it.
C13_DeploymentNeverDeleted ==
    [][TdIds(td_rows) \subseteq TdIds(td_rows')]_vars

\* C14: after create_scanning_checkpoint(b) returns, from any database state,
\* paraswap_scan_checkpoints holds exactly one row with scan_type
\* 'incremental', and its last_block is b.
C14_OneCheckpointRowAtBlock ==
    ck_pc = "done" =>
        LET inc == {k \in 1 .. Len(ck_ckpt.rows) :
                       ck_ckpt.rows[k].scan_type = "incremental"}
        IN  /\ ck_ckpt.exists
            /\ Cardinality(inc) = 1
            /\ \A k \in inc : ck_ckpt.rows[k].last_block = ck_block

\* C15: the first scan after a start-up begins at the stored
\* last_block_scanned + 1, every later scan begins at the previously recorded
\* chain tip + 1, and no block is passed to scan_events twice.
C15_ScanStartsAfterCheckpoint ==
    /\ hs_scans = 1 => hs_last_start = hs_at_startup + 1
    /\ hs_scans > 1 => hs_last_start = hs_prev_tip + 1
    /\ \A b \in HsBlocks : hs_count[b] <= 1

\* the blocks of the crashed run's eth_getLogs requests
CrashRequested ==
    UNION {cr_crash.requests[k][1] .. cr_crash.requests[k][2]
           : k \in 1 .. Len(cr_crash.requests)}

\* blocks the run after the crash scans again
CrashRescanned == CrashRequested \cap (ps_start .. ps_latest)

\* blocks of the crashed run's range the run after the crash never scans
CrashSkipped ==
    {b \in cr_crash.start .. cr_crash.latest : b < ps_start /\ b \notin CrashRequested}

\* C16: in the run that follows a crashed run, the blocks scanned again or
\* never scanned are at most one checkpoint interval, CHECKPOINT_EVERY chunks
\* of BLOCK_CHUNK_SIZE blocks.
C16_CrashWindowBounded ==
    (ps_pc = "scan" /\ ps_resumed /\ cr_crash.run > 0 /\ cr_crash.run = ps_runs - 1) =>
        Cardinality(CrashRescanned \cup CrashSkipped)
            <= CHECKPOINT_EVERY * BLOCK_CHUNK_SIZE

\* ceil(a / b)
CeilDiv(a, b) == (a + b - 1) \div b

\* C17: scan_incremental_blocks with start_block < end_block builds exactly
\* ceil((end_block - start_block) / BLOCK_CHUNK_SIZE) chunks, issues one log
\* request per chunk, failed or not, and returns; scan_for_target_tokens
\* processes every batch once, each batch starting one block after the end
\* of the previous one, and returns, whatever errors chunks or blocks raise.
C17_ScanLoopsTerminate ==
    /\ [](ch_pc \in {"scan", "done"} /\ ch_start < ch_end =>
            Len(ch_chunks) = CeilDiv(ch_end - ch_start, BLOCK_CHUNK_SIZE))
    /\ [](ch_pc = "done" =>
            /\ Len(ch_requests) = Len(ch_chunks)
            /\ \A k \in 1 .. Len(ch_chunks) :
                  /\ ch_requests[k][1] = ch_chunks[k][1]
                  /\ ch_requests[k][2] = ch_chunks[k][2])
    /\ (ch_pc = "call" /\ ch_which = "incremental") ~> (ch_pc = "done")
    /\ [][FTEndBatch =>
            /\ ft_cur <= ft_batch_end
            /\ ft_batch_end = Min(ft_cur + BATCH_SIZE - 1, ft_end)
            /\ ft_cur' = ft_batch_end + 1]_vars
    /\ (ft_pc # "idle") ~> (ft_pc = "idle")

\* a scan of two chunks, the last one shorter, whose first request failed; or
\* a scan_for_target_tokens that leaves its loop after a block raised
C17_Witness ==
    \/ /\ ch_pc = "done"
       /\ Len(ch_chunks) = 2
       /\ (ch_end - ch_start) % BLOCK_CHUNK_SIZE # 0
       /\ ch_requests[1][3] = "error"
    \/ /\ ft_pc = "loop"
       /\ ft_cur > ft_end
       /\ ft_failed # {}

\* C18: ArenaScraper.run never passes more than `limit` users in total to
\* process_users.
C18_LimitIsTotal ==
    as_passed <= as_limit

\* C19: when a historical sync has ended because a query returned no more
\* data, every record of the subgraph, records sharing one timestamp
\* included, was returned by some query and submitted for insert.
C19_HistoricalSyncFetchesAll ==
    sy_pc = "done" => sy_fetched = 1 .. Len(sy_records)

\* the buy price of every token held, one entry per token, in purchase order
RECURSIVE UnitPrices(_)
UnitPrices(holdings) ==
    IF holdings = <<>> THEN <<>>
    ELSE [i \in 1 .. holdings[1][1] |-> holdings[1][2]] \o UnitPrices(Tail(holdings))

RECURSIVE SumSeq(_)
SumSeq(q) == IF q = <<>> THEN 0 ELSE Head(q) + SumSeq(Tail(q))

\* C20: a sell of quantity q <= held quantity consumes the q oldest tokens
\* held (whole lots in purchase order, the last one split), returns
\* q * sell price minus the buy prices of the tokens consumed, and
\* realized_pnl increases by exactly the value returned.
C20_SellIsFifo ==
    [][pf_position'.total_sold > pf_position.total_sold =>
          LET q == pf_last'.quantity
              before == pf_position.holdings
              after == pf_position'.holdings
              units == UnitPrices(before)
              gone == Len(before) - Len(after)
          IN  /\ q = pf_position'.total_sold - pf_position.total_sold
              /\ q <= pf_position.total_quantity
              /\ UnitPrices(after) = SubSeq(units, q + 1, Len(units))
              /\ gone >= 0
              /\ \A k \in 2 .. Len(after) : after[k] = before[k + gone]
              /\ after # <<>> =>
                    /\ after[1][2] = before[1 + gone][2]
                    /\ after[1][1] <= before[1 + gone][1]
              /\ pf_last'.pnl = q * pf_last'.price - SumSeq(SubSeq(units, 1, q))
              /\ pf_position'.realized_pnl = pf_position.realized_pnl + pf_last'.pnl]_vars

\* a sell that consumed the oldest lot whole and split the second one, bought
\* at another price
C20_Witness ==
    /\ pf_last # NoSell
    /\ Len(pf_last.before.holdings) >= 2
    /\ pf_last.quantity > pf_last.before.holdings[1][1]
    /\ pf_last.before.holdings[1][2] # pf_last.before.holdings[2][2]
    /\ pf_position.total_sold = pf_last.before.total_sold + pf_last.quantity
    /\ pf_position.holdings # <<>>
    /\ pf_position.holdings[1][2] = pf_last.before.holdings[2][2]
    /\ pf_position.holdings[1][1] < pf_last.before.holdings[2][1]

\* C24: a sell of more than the held quantity returns 0 and leaves the
\* position of that token (holdings, total_quantity, total_sold,
\* total_revenue, realized_pnl and the rest) and of every other token as
\* they were.
C24_OversellRejected ==
    [][(pf_last'.call = pf_ops' /\ pf_ops' = pf_ops + 1
            /\ pf_last'.quantity > pf_last'.before.total_quantity) =>
          /\ pf_last'.before = (IF pf_last'.token = "tokenA" THEN pf_position
                                ELSE pf_other)
          /\ pf_last'.pnl = 0
          /\ pf_position' = pf_position
          /\ pf_other' = pf_other]_vars

\* the last call was a sell of 2 of a token of which 1 was held, bought at a
\* price below the sell price, while the other token is held too
C24_Witness ==
    /\ pf_last.call = pf_ops
    /\ pf_last.token = "tokenA"
    /\ pf_last.quantity = 2
    /\ pf_last.before.total_quantity = 1
    /\ pf_last.before.holdings[1][2] < pf_last.price
    /\ pf_position = pf_last.before
    /\ pf_other.total_quantity > 0

PfLotQuantities(position) ==
    [k \in 1 .. Len(position.holdings) |-> position.holdings[k][1]]

PfConsistent(position) ==
    /\ position.total_quantity = SumSeq(PfLotQuantities(position))
    /\ position.total_quantity = position.total_bought - position.total_sold
    /\ position.total_quantity >= 0
    /\ \A k \in 1 .. Len(position.holdings) : position.holdings[k][1] > 0

\* C25: after any sequence of buy and sell calls with positive integer
\* quantities every position has total_quantity = the sum of the quantities
\* of its lots = total_bought - total_sold, total_quantity >= 0, and only
\* lots of quantity > 0.
C25_PositionConsistent == PfConsistent(pf_position) /\ PfConsistent(pf_other)

\* a position with earlier sells whose oldest lot the last sell reduced
\* without using it up
C25_Witness ==
    /\ pf_position.total_sold >= 2
    /\ Len(pf_position.holdings) >= 1
    /\ pf_position.total_quantity < pf_position.total_bought
    /\ pf_last.call > 0
    /\ pf_last.token = "tokenA"
    /\ pf_last.quantity < pf_last.before.holdings[1][1]
    /\ pf_position.holdings[1][1] = pf_last.before.holdings[1][1] - pf_last.quantity

\* a kept log whose token address is not in lower case and whose recipient,
\* not its sender, is the router
C10_Witness ==
    /\ fl_kept = "kept"
    /\ lower(fl_log.address) # fl_log.address
    /\ SameAddress(fl_to, RouterDigits)
    /\ ~SameAddress(fl_from, RouterDigits)

====
